---- MODULE Spec2Model ----
(***************************************************************************)
(* Retrieval-context pipeline of the legal RAG system: citation guard,     *)
(* compressors, segmenter and query engine.  Strings are sequences of      *)
(* one-character strings; every string function of the source that the     *)
(* model uses (find, replace, split, strip, regular-expression matching)   *)
(* is computed on those sequences.                                         *)
(***************************************************************************)
EXTENDS Integers, Sequences, FiniteSets, TLC

VARIABLES
    text,           \* guard: the input of _protect_citations
    protected_text, \* guard: the text with placeholders
    citation_map,   \* guard: the placeholder -> citation dict, in insertion order
    restored_text,  \* guard: the output of _restore_citations
    gpc,            \* guard: position of the round trip
    document,       \* segmenter: the document given to chunk_document
    chunk_size,     \* segmenter: LegalChunker.chunk_size
    chunk_overlap,  \* segmenter: LegalChunker.chunk_overlap
    chunks,         \* segmenter: the chunks chunk_document returned
    cpc,            \* segmenter: position of the call
    raw_text,       \* document processor: the text extracted from the file
    dp_document,    \* document processor: the ProcessedDocument
    dp_size,        \* document_processor LegalChunker.chunk_size
    dp_overlap,     \* document_processor LegalChunker.chunk_overlap
    respect_sections, \* LegalChunker.respect_sections (of either chunker)
    dp_chunks,      \* the chunks its chunk_document returned
    dpc,            \* document processor: position of the ingestion
    target_ratio,   \* compressor: LLMLinguaCompressor.target_ratio
    force_tokens,   \* compressor: LLMLinguaCompressor.force_tokens
    c_text,         \* compress: the text argument
    c_query,        \* compress: the query argument, <<>> for None
    preserve_citations, \* compress: the preserve_citations argument
    sent,           \* compress: the requests passed to the external model
    c_result,       \* compress: the CompressionResult returned
    cmpc,           \* compress: position of the call
    th,             \* compress_chunks: the frame of each calling thread
    configured_ratio, \* the target_ratio the compressor was constructed with
    call_limit,     \* compress_chunks: the calls each thread makes
    chunk_lists,    \* compress_chunks: the chunk lists the callers pass
    engine,         \* query: the configuration of the LegalRAGEngine
    qframe,         \* query: the locals and position of the call
    service_calls,  \* query: the calls made to the external services, in order
    rag_response,   \* query: what the call returned or raised
    fb_runs,        \* fallback: the calls of SimpleFallbackCompressor.compress
    indexing,       \* store: the locals and position of add_chunks, the collection
    api,            \* API: the position, endpoint and arguments of a handler, its HTTP response
    ov              \* overlap: the buffer and chunk_overlap of a call of _get_overlap, its result

guardVars == <<text, protected_text, citation_map, restored_text, gpc>>
chunkVars == <<document, chunk_size, chunk_overlap, chunks, cpc>>

dpVars == <<raw_text, dp_document, dp_size, dp_overlap, respect_sections,
            dp_chunks, dpc>>

compVars == <<target_ratio, force_tokens, c_text, c_query, preserve_citations,
              sent, c_result, cmpc>>

budgetVars == <<th, configured_ratio, call_limit, chunk_lists>>

queryVars == <<engine, qframe, service_calls, rag_response>>

fallbackVars == <<fb_runs>>

storeVars == <<indexing>>

apiVars == <<api>>

overlapVars == <<ov>>

vars == <<text, protected_text, citation_map, restored_text, gpc,
          document, chunk_size, chunk_overlap, chunks, cpc,
          raw_text, dp_document, dp_size, dp_overlap, respect_sections,
          dp_chunks, dpc,
          target_ratio, force_tokens, c_text, c_query, preserve_citations,
          sent, c_result, cmpc,
          th, configured_ratio, call_limit, chunk_lists,
          engine, qframe, service_calls, rag_response,
          fb_runs, indexing,
          api,
          ov>>

-----------------------------------------------------------------------------
(* Python str primitives on character sequences.                           *)

\* s[pos..] starts with sub
StartsAt(s, sub, pos) ==
    /\ pos >= 1
    /\ pos + Len(sub) - 1 <= Len(s)
    /\ \A k \in 1..Len(sub) : s[pos + k - 1] = sub[k]

\* str.find: the least index >= from at which sub occurs, 0 when there is none
RECURSIVE Find(_, _, _)
Find(s, sub, from) ==
    IF from + Len(sub) - 1 > Len(s) THEN 0
    ELSE IF StartsAt(s, sub, from) THEN from
    ELSE Find(s, sub, from + 1)

Range(f) == {f[x] : x \in DOMAIN f}

\* sub in s
Contains(s, sub) == Find(s, sub, 1) # 0

\* str.replace(old, new, 1)
ReplaceFirst(s, old, new) ==
    LET p == Find(s, old, 1)
    IN  IF p = 0 THEN s
        ELSE SubSeq(s, 1, p - 1) \o new \o SubSeq(s, p + Len(old), Len(s))

\* str.replace(old, new): every non-overlapping occurrence, left to right
RECURSIVE ReplaceFrom(_, _, _, _)
ReplaceFrom(s, old, new, from) ==
    LET p == Find(s, old, from)
    IN  IF p = 0 THEN SubSeq(s, from, Len(s))
        ELSE SubSeq(s, from, p - 1) \o new \o ReplaceFrom(s, old, new, p + Len(old))

ReplaceAll(s, old, new) == ReplaceFrom(s, old, new, 1)

\* str(n) for n >= 0
DigitChar(d) == <<"0", "1", "2", "3", "4", "5", "6", "7", "8", "9">>[d + 1]

RECURSIVE IntToStr(_)
IntToStr(n) ==
    IF n < 10 THEN <<DigitChar(n)>>
    ELSE IntToStr(n \div 10) \o <<DigitChar(n % 10)>>

\* concatenation of a sequence of strings
RECURSIVE Flatten(_)
Flatten(ss) == IF ss = <<>> THEN <<>> ELSE Head(ss) \o Flatten(Tail(ss))

\* sep.join(parts)
RECURSIVE Join(_, _)
Join(parts, sep) ==
    IF parts = <<>> THEN <<>>
    ELSE IF Len(parts) = 1 THEN parts[1]
    ELSE parts[1] \o sep \o Join(Tail(parts), sep)

-----------------------------------------------------------------------------
(* Regular expressions of the source, as sequences of quantified character *)
(* classes, matched as Python's re does: leftmost, greedy, backtracking.   *)

Digit == {"0", "1", "2", "3", "4", "5", "6", "7", "8", "9"}
Upper == {"A", "B", "C", "D", "E", "F", "G", "H", "I", "J", "K", "L", "M",
          "N", "O", "P", "Q", "R", "S", "T", "U", "V", "W", "X", "Y", "Z"}
Lower == {"a", "b", "c", "d", "e", "f", "g", "h", "i", "j", "k", "l", "m",
          "n", "o", "p", "q", "r", "s", "t", "u", "v", "w", "x", "y", "z"}
Space == {" ", "\n", "\t"}

Unbounded == 0 - 1

One(cls)  == [cls |-> cls, lo |-> 1, hi |-> 1, look |-> "no"]
Plus(cls) == [cls |-> cls, lo |-> 1, hi |-> Unbounded, look |-> "no"]
Star(cls) == [cls |-> cls, lo |-> 0, hi |-> Unbounded, look |-> "no"]
Opt(cls)  == [cls |-> cls, lo |-> 0, hi |-> 1, look |-> "no"]
Lit(c)    == One({c})
\* (?<=[cls]) and (?=[cls])
LookBehind(cls) == [cls |-> cls, lo |-> 0, hi |-> 0, look |-> "behind"]
LookAhead(cls)  == [cls |-> cls, lo |-> 0, hi |-> 0, look |-> "ahead"]

\* the length of the run of characters of cls at pos, at most hi of them
RECURSIVE RunLen(_, _, _, _)
RunLen(s, pos, cls, hi) ==
    IF hi = 0 \/ pos > Len(s) \/ s[pos] \notin cls THEN 0
    ELSE 1 + RunLen(s, pos + 1, cls, IF hi = Unbounded THEN hi ELSE hi - 1)

\* the position after the match of pat[k..] at pos, 0 when there is none
RECURSIVE MatchFrom(_, _, _, _)
RECURSIVE TryCount(_, _, _, _, _)
MatchFrom(pat, k, s, pos) ==
    IF k > Len(pat) THEN pos
    ELSE IF pat[k].look = "behind"
    THEN (IF pos > 1 /\ s[pos - 1] \in pat[k].cls
          THEN MatchFrom(pat, k + 1, s, pos) ELSE 0)
    ELSE IF pat[k].look = "ahead"
    THEN (IF pos <= Len(s) /\ s[pos] \in pat[k].cls
          THEN MatchFrom(pat, k + 1, s, pos) ELSE 0)
    ELSE TryCount(pat, k, s, pos, RunLen(s, pos, pat[k].cls, pat[k].hi))

TryCount(pat, k, s, pos, n) ==
    IF n < pat[k].lo THEN 0
    ELSE LET r == MatchFrom(pat, k + 1, s, pos + n)
         IN  IF r # 0 THEN r ELSE TryCount(pat, k, s, pos, n - 1)

\* re.finditer / re.findall: the non-overlapping matches from pos on
RECURSIVE FindAll(_, _, _)
FindAll(pat, s, pos) ==
    IF pos > Len(s) THEN <<>>
    ELSE LET e == MatchFrom(pat, 1, s, pos)
         IN  IF e = 0 \/ e = pos THEN FindAll(pat, s, pos + 1)
             ELSE <<SubSeq(s, pos, e - 1)>> \o FindAll(pat, s, e)

\* re.split: the pieces between the matches; cur is where the current piece
\* starts
RECURSIVE ReSplitFrom(_, _, _, _)
ReSplitFrom(pat, s, cur, pos) ==
    IF pos > Len(s) THEN <<SubSeq(s, cur, Len(s))>>
    ELSE LET e == MatchFrom(pat, 1, s, pos)
         IN  IF e = 0 \/ e = pos THEN ReSplitFrom(pat, s, cur, pos + 1)
             ELSE <<SubSeq(s, cur, pos - 1)>> \o ReSplitFrom(pat, s, e, e)

ReSplit(pat, s) == ReSplitFrom(pat, s, 1, 1)

\* re.search
Search(pat, s) == FindAll(pat, s, 1) # <<>>

-----------------------------------------------------------------------------
(* CitationGuard: LLMLinguaCompressor._protect_citations and               *)
(* _restore_citations.                                                     *)

CITATION_PATTERNS == <<
    \* \d+\s+U\.S\.\s+\d+
    <<Plus(Digit), Plus(Space), Lit("U"), Lit("."), Lit("S"), Lit("."),
      Plus(Space), Plus(Digit)>>,
    \* \d+\s+S\.\s*Ct\.\s+\d+
    <<Plus(Digit), Plus(Space), Lit("S"), Lit("."), Star(Space), Lit("C"),
      Lit("t"), Lit("."), Plus(Space), Plus(Digit)>>,
    \* \d+\s+F\.\d+d\s+\d+
    <<Plus(Digit), Plus(Space), Lit("F"), Lit("."), Plus(Digit), Lit("d"),
      Plus(Space), Plus(Digit)>>,
    \* \d+\s+F\.\s*Supp\.\s*\d*d?\s+\d+
    <<Plus(Digit), Plus(Space), Lit("F"), Lit("."), Star(Space), Lit("S"),
      Lit("u"), Lit("p"), Lit("p"), Lit("."), Star(Space), Star(Digit),
      Opt({"d"}), Plus(Space), Plus(Digit)>>,
    \* [A-Z][a-z]+\s+v\.\s+[A-Z][a-z]+
    <<One(Upper), Plus(Lower), Plus(Space), Lit("v"), Lit("."), Plus(Space),
      One(Upper), Plus(Lower)>>,
    \* \d+\s+U\.S\.C\.\s+XY\s*\d+, where XY are the two non-ASCII characters
    \* the source file holds for the section sign, written "%" and "$" here
    <<Plus(Digit), Plus(Space), Lit("U"), Lit("."), Lit("S"), Lit("."),
      Lit("C"), Lit("."), Plus(Space), Lit("%"), Lit("$"), Star(Space),
      Plus(Digit)>>,
    \* \d+\s+C\.F\.R\.\s+XY\s*\d+
    <<Plus(Digit), Plus(Space), Lit("C"), Lit("."), Lit("F"), Lit("."),
      Lit("R"), Lit("."), Plus(Space), Lit("%"), Lit("$"), Star(Space),
      Plus(Digit)>> >>

\* f"__CITATION_{i}_{j}__", i and j counted from 0
Placeholder(i, j) ==
    <<"_", "_", "C", "I", "T", "A", "T", "I", "O", "N", "_">> \o IntToStr(i)
        \o <<"_">> \o IntToStr(j) \o <<"_", "_">>

\* the inner loop over the matches of pattern i (1-based here, i-1 in the source):
\* st = [text, map]
RECURSIVE ProtectMatches(_, _, _, _)
ProtectMatches(st, i, matches, j) ==
    IF j > Len(matches) THEN st
    ELSE LET placeholder == Placeholder(i - 1, j - 1)
         IN  ProtectMatches(
                 [text |-> ReplaceFirst(st.text, matches[j], placeholder),
                  map  |-> Append(st.map, <<placeholder, matches[j]>>)],
                 i, matches, j + 1)

\* the outer loop over the patterns; finditer scans the text as it is when
\* pattern i is reached
RECURSIVE ProtectPatterns(_, _)
ProtectPatterns(st, i) ==
    IF i > Len(CITATION_PATTERNS) THEN st
    ELSE ProtectPatterns(
             ProtectMatches(st, i, FindAll(CITATION_PATTERNS[i], st.text, 1), 1),
             i + 1)

_protect_citations(t) == ProtectPatterns([text |-> t, map |-> <<>>], 1)

RECURSIVE RestoreFrom(_, _, _)
RestoreFrom(t, map, k) ==
    IF k > Len(map) THEN t
    ELSE RestoreFrom(ReplaceAll(t, map[k][1], map[k][2]), map, k + 1)

_restore_citations(t, map) == RestoreFrom(t, map, 1)

-----------------------------------------------------------------------------
(* Segmenter: LegalChunker of legal_rag/core/chunker.py.                   *)

NL2 == <<"\n", "\n">>
SP  == <<" ">>
SentenceEnd == {".", "!", "?"}

\* str.strip()
RECURSIVE LStrip(_)
LStrip(s) == IF s # <<>> /\ Head(s) \in Space THEN LStrip(Tail(s)) ELSE s

RECURSIVE RStrip(_)
RStrip(s) ==
    IF s # <<>> /\ s[Len(s)] \in Space THEN RStrip(SubSeq(s, 1, Len(s) - 1)) ELSE s

Strip(s) == RStrip(LStrip(s))

\* str.split(sep) from position from on
RECURSIVE SplitFrom(_, _, _)
SplitFrom(s, sep, from) ==
    LET p == Find(s, sep, from)
    IN  IF p = 0 THEN <<SubSeq(s, from, Len(s))>>
        ELSE <<SubSeq(s, from, p - 1)>> \o SplitFrom(s, sep, p + Len(sep))

Split(s, sep) == SplitFrom(s, sep, 1)

\* [x.strip() for x in parts if x.strip()]
RECURSIVE StripNonEmpty(_)
StripNonEmpty(parts) ==
    IF parts = <<>> THEN <<>>
    ELSE IF Strip(Head(parts)) = <<>> THEN StripNonEmpty(Tail(parts))
    ELSE <<Strip(Head(parts))>> \o StripNonEmpty(Tail(parts))

\* (?<=[.!?])\s+
SentenceBoundary == <<LookBehind(SentenceEnd), Plus(Space)>>

_split_sentences(s) == StripNonEmpty(ReSplit(SentenceBoundary, s))

\* _get_overlap: the loop over reversed(chunks), k the next index to visit
RECURSIVE OverlapLoop(_, _, _, _)
OverlapLoop(units, k, overlap_text, overlap) ==
    IF k = 0 THEN overlap_text
    ELSE IF Len(overlap_text) + Len(units[k]) <= overlap
    THEN OverlapLoop(units, k - 1, units[k] \o SP \o overlap_text, overlap)
    ELSE LET remaining == overlap - Len(overlap_text)
         IN  IF remaining > 0
             THEN SubSeq(units[k], Len(units[k]) - remaining + 1, Len(units[k]))
                      \o SP \o overlap_text
             ELSE overlap_text

\* _get_overlap; the variant returns overlap_text without the strip()
_get_overlap_Unstripped(units, overlap) ==
    IF units = <<>> \/ overlap <= 0 THEN <<>>
    ELSE OverlapLoop(units, Len(units), <<>>, overlap)
_get_overlap(units, overlap) ==
    IF units = <<>> \/ overlap <= 0 THEN <<>>
    ELSE Strip(OverlapLoop(units, Len(units), <<>>, overlap))

DocId == <<"d">>

\* _create_chunk; sidx is the position of the section in the document
\* (bookkeeping of the model, not a field of DocumentChunk)
_create_chunk(chunk_text, section, index, sidx) ==
    [content  |-> chunk_text,
     chunk_id |-> DocId \o <<"_">> \o section \o <<"_">> \o IntToStr(index),
     section  |-> section,
     sidx     |-> sidx]

\* the body of "if current_size + len(unit) > chunk_size and current_chunk":
\* st = [chunks, current_chunk, current_size, chunk_index]
CloseChunk(st, unit, sep, section, sidx, overlap, sentence_branch) ==
    LET chunk_text   == Join(st.current_chunk, sep)
        overlap_text == _get_overlap(st.current_chunk, overlap)
        new_chunk    == IF overlap_text # <<>> THEN <<overlap_text, unit>> ELSE <<unit>>
    IN  [chunks        |-> Append(st.chunks,
                               _create_chunk(chunk_text, section, st.chunk_index, sidx)),
         chunk_index   |-> st.chunk_index + 1,
         current_chunk |-> new_chunk,
         current_size  |->
             IF sentence_branch THEN Len(new_chunk[1]) + Len(unit)
             ELSE IF overlap_text # <<>> THEN Len(overlap_text) + Len(unit)
             ELSE Len(unit)]

AppendUnit(st, unit) ==
    [st EXCEPT !.current_chunk = Append(@, unit),
               !.current_size  = @ + Len(unit)]

AddUnit(st, unit, sep, section, sidx, size, overlap, sentence_branch) ==
    IF st.current_size + Len(unit) > size /\ st.current_chunk # <<>>
    THEN CloseChunk(st, unit, sep, section, sidx, overlap, sentence_branch)
    ELSE AppendUnit(st, unit)

RECURSIVE AddSentences(_, _, _, _, _, _)
AddSentences(st, sentences, section, sidx, size, overlap) ==
    IF sentences = <<>> THEN st
    ELSE AddSentences(
             AddUnit(st, Head(sentences), SP, section, sidx, size, overlap, TRUE),
             Tail(sentences), section, sidx, size, overlap)

\* the loop over the paragraphs of one section; the variant lacks the
\* "if not paragraph: continue" of the loop
RECURSIVE AddParagraphs(_, _, _, _, _, _)
AddParagraphs_KeepEmpty(st, paragraphs, section, sidx, size, overlap) ==
    IF paragraphs = <<>> THEN st
    ELSE LET paragraph == Strip(Head(paragraphs))
             next ==
                 IF Len(paragraph) > size
                 THEN AddSentences(st, _split_sentences(paragraph),
                                   section, sidx, size, overlap)
                 ELSE AddUnit(st, paragraph, NL2, section, sidx, size, overlap, FALSE)
         IN  AddParagraphs(next, Tail(paragraphs), section, sidx, size, overlap)
AddParagraphs(st, paragraphs, section, sidx, size, overlap) ==
    IF paragraphs = <<>> THEN st
    ELSE LET paragraph == Strip(Head(paragraphs))
             next ==
                 IF paragraph = <<>> THEN st
                 ELSE IF Len(paragraph) > size
                 THEN AddSentences(st, _split_sentences(paragraph),
                                   section, sidx, size, overlap)
                 ELSE AddUnit(st, paragraph, NL2, section, sidx, size, overlap, FALSE)
         IN  AddParagraphs(next, Tail(paragraphs), section, sidx, size, overlap)

\* a segmenter that forgets the units still buffered at the end of a section
FlushSection_Forgotten(st, section, sidx) == st

\* "Don't forget the last chunk in this section"
FlushSection(st, section, sidx) ==
    IF st.current_chunk # <<>>
    THEN [st EXCEPT
             !.chunks = Append(@, _create_chunk(Join(st.current_chunk, NL2),
                                                section, st.chunk_index, sidx)),
             !.chunk_index = @ + 1]
    ELSE st

\* what the loop over the sections sets at the start of a section
StartSection(st) ==
    [st EXCEPT !.current_chunk = <<>>, !.current_size = 0]

RECURSIVE ChunkSections(_, _, _, _, _)
ChunkSections(st, sections, k, size, overlap) ==
    IF k > Len(sections) THEN st
    ELSE LET section_name == sections[k].name
             txt          == sections[k].text
             next ==
                 IF Strip(txt) = <<>> THEN st
                 ELSE FlushSection(
                          AddParagraphs(StartSection(st), Split(txt, NL2),
                                        section_name, k, size, overlap),
                          section_name, k)
         IN  ChunkSections(next, sections, k + 1, size, overlap)

CONTENT == <<"C", "O", "N", "T", "E", "N", "T">>

chunk_document(doc, size, overlap) ==
    LET sections == IF doc.sections # <<>> THEN doc.sections
                    ELSE <<[name |-> CONTENT, text |-> doc.content]>>
    IN  ChunkSections([chunks |-> <<>>, chunk_index |-> 0,
                       current_chunk |-> <<>>, current_size |-> 0],
                      sections, 1, size, overlap).chunks

-----------------------------------------------------------------------------
(* Section extraction: LegalDocumentProcessor._extract_sections.           *)

HeaderSlack == 20
TokenChars == 4

SECTION_HEADERS == <<
    <<"O", "P", "I", "N", "I", "O", "N">>,
    <<"B", "A", "C", "K", "G", "R", "O", "U", "N", "D">>,
    <<"F", "A", "C", "T", "S">>,
    <<"A", "N", "A", "L", "Y", "S", "I", "S">>,
    <<"D", "I", "S", "C", "U", "S", "S", "I", "O", "N">>,
    <<"C", "O", "N", "C", "L", "U", "S", "I", "O", "N">>,
    <<"H", "O", "L", "D", "I", "N", "G">>,
    <<"J", "U", "D", "G", "M", "E", "N", "T">>,
    <<"O", "R", "D", "E", "R">>,
    <<"D", "I", "S", "S", "E", "N", "T">>,
    <<"C", "O", "N", "C", "U", "R", "R", "E", "N", "C", "E">>,
    <<"P", "R", "O", "C", "E", "D", "U", "R", "A", "L", " ", "H", "I", "S", "T", "O", "R", "Y">>,
    <<"S", "T", "A", "N", "D", "A", "R", "D", " ", "O", "F", " ", "R", "E", "V", "I", "E", "W">>,
    <<"L", "E", "G", "A", "L", " ", "S", "T", "A", "N", "D", "A", "R", "D">>,
    <<"I", "N", "T", "R", "O", "D", "U", "C", "T", "I", "O", "N">>,
    <<"S", "U", "M", "M", "A", "R", "Y">> >>

PREAMBLE == <<"P", "R", "E", "A", "M", "B", "L", "E">>
NL == <<"\n">>

\* str.upper() of one character
UpperChar(c) ==
    CASE c = "a" -> "A"
      [] c = "b" -> "B"
      [] c = "c" -> "C"
      [] c = "d" -> "D"
      [] c = "e" -> "E"
      [] c = "f" -> "F"
      [] c = "g" -> "G"
      [] c = "h" -> "H"
      [] c = "i" -> "I"
      [] c = "j" -> "J"
      [] c = "k" -> "K"
      [] c = "l" -> "L"
      [] c = "m" -> "M"
      [] c = "n" -> "N"
      [] c = "o" -> "O"
      [] c = "p" -> "P"
      [] c = "q" -> "Q"
      [] c = "r" -> "R"
      [] c = "s" -> "S"
      [] c = "t" -> "T"
      [] c = "u" -> "U"
      [] c = "v" -> "V"
      [] c = "w" -> "W"
      [] c = "x" -> "X"
      [] c = "y" -> "Y"
      [] c = "z" -> "Z"
      [] OTHER -> c

ToUpper(s) == [k \in 1..Len(s) |-> UpperChar(s[k])]

\* the first header the line starts with, 0 when it is no header line
RECURSIVE FindHeader(_, _)
FindHeader(line_upper, h) ==
    IF h > Len(SECTION_HEADERS) THEN 0
    ELSE IF /\ StartsAt(line_upper, SECTION_HEADERS[h], 1)
            /\ Len(line_upper) < Len(SECTION_HEADERS[h]) + HeaderSlack
    THEN h
    ELSE FindHeader(line_upper, h + 1)

\* the loop over the lines: st = [sections, current_section]
RECURSIVE ExtractLines(_, _)
ExtractLines(st, lines) ==
    IF lines = <<>> THEN st
    ELSE LET line == Head(lines)
             h    == FindHeader(ToUpper(Strip(line)), 1)
             next ==
                 IF h # 0
                 THEN [sections |->
                           IF Strip(st.current_section.content) # <<>>
                           THEN Append(st.sections, st.current_section)
                           ELSE st.sections,
                       current_section |->
                           [title |-> SECTION_HEADERS[h], content |-> <<>>]]
                 ELSE [st EXCEPT !.current_section.content = @ \o line \o NL]
         IN  ExtractLines(next, Tail(lines))

_extract_sections(txt) ==
    LET st == ExtractLines([sections |-> <<>>,
                            current_section |-> [title |-> PREAMBLE, content |-> <<>>]],
                           Split(txt, NL))
    IN  IF Strip(st.current_section.content) # <<>>
        THEN Append(st.sections, st.current_section)
        ELSE st.sections

-----------------------------------------------------------------------------
(* Segmenter: LegalChunker of src/document_processor/chunker.py.           *)

DP_CITATION_PATTERNS == <<
    \* \d+\s+U\.S\.
    <<Plus(Digit), Plus(Space), Lit("U"), Lit("."), Lit("S"), Lit(".")>>,
    \* \d+\s+F\.\d+d
    <<Plus(Digit), Plus(Space), Lit("F"), Lit("."), Plus(Digit), Lit("d")>>,
    \* \d+\s+S\.Ct\.
    <<Plus(Digit), Plus(Space), Lit("S"), Lit("."), Lit("C"), Lit("t"), Lit(".")>>,
    \* Id\.
    <<Lit("I"), Lit("d"), Lit(".")>>,
    \* See\s+
    <<Lit("S"), Lit("e"), Lit("e"), Plus(Space)>>,
    \* Cf\.
    <<Lit("C"), Lit("f"), Lit(".")>> >>

\* f"__PROTECTED_{i}_{n}__"
ProtectedToken(i, n) ==
    <<"_", "_", "P", "R", "O", "T", "E", "C", "T", "E", "D", "_">> \o IntToStr(i)
        \o <<"_">> \o IntToStr(n) \o <<"_", "_">>

\* st = [text, protections]
RECURSIVE DpProtectMatches(_, _, _, _)
DpProtectMatches(st, i, matches, j) ==
    IF j > Len(matches) THEN st
    ELSE LET placeholder == ProtectedToken(i - 1, Len(st.protections))
         IN  DpProtectMatches(
                 [text |-> ReplaceFirst(st.text, matches[j], placeholder),
                  protections |-> Append(st.protections, <<placeholder, matches[j]>>)],
                 i, matches, j + 1)

RECURSIVE DpProtectPatterns(_, _)
DpProtectPatterns(st, i) ==
    IF i > Len(DP_CITATION_PATTERNS) THEN st
    ELSE DpProtectPatterns(
             DpProtectMatches(st, i, FindAll(DP_CITATION_PATTERNS[i], st.text, 1), 1),
             i + 1)

\* (?<=[.!?])\s+(?=[A-Z])
DpSentenceBoundary == <<LookBehind(SentenceEnd), Plus(Space), LookAhead(Upper)>>

RECURSIVE DpRestoreSentences(_, _)
DpRestoreSentences(sentences, protections) ==
    IF sentences = <<>> THEN <<>>
    ELSE LET sentence == RestoreFrom(Head(sentences), protections, 1)
         IN  (IF Strip(sentence) # <<>> THEN <<Strip(sentence)>> ELSE <<>>)
                 \o DpRestoreSentences(Tail(sentences), protections)

_split_into_sentences(txt) ==
    LET st == DpProtectPatterns([text |-> txt, protections |-> <<>>], 1)
    IN  DpRestoreSentences(ReSplit(DpSentenceBoundary, st.text), st.protections)

\* \n\s*\n
ParagraphBreak == <<Lit("\n"), Star(Space), Lit("\n")>>

RECURSIVE DpParagraphs(_, _)
DpParagraphs(raw_paragraphs, size) ==
    IF raw_paragraphs = <<>> THEN <<>>
    ELSE LET para == Strip(Head(raw_paragraphs))
         IN  (IF para = <<>> THEN <<>>
              ELSE IF Len(para) > size THEN _split_into_sentences(para)
              ELSE <<para>>) \o DpParagraphs(Tail(raw_paragraphs), size)

_split_into_paragraphs(txt, size) == DpParagraphs(ReSplit(ParagraphBreak, txt), size)

MAIN == <<"m", "a", "i", "n">>

\* f"{doc_id}_{section or 'main'}_{chunk_idx}"
DpChunkId(doc_id, section, chunk_idx) ==
    doc_id \o <<"_">> \o (IF section # <<>> THEN section ELSE MAIN)
        \o <<"_">> \o IntToStr(chunk_idx)

DpChunk(content, doc_id, section, chunk_idx) ==
    [content |-> Strip(content), chunk_id |-> DpChunkId(doc_id, section, chunk_idx),
     document_id |-> doc_id, section |-> section]

\* s[-n:] for n > 0
Tail_n(s, n) == IF n >= Len(s) THEN s ELSE SubSeq(s, Len(s) - n + 1, Len(s))

\* the loop over the paragraphs: st = [chunks, current_chunk, chunk_idx]
RECURSIVE DpChunkLoop(_, _, _, _, _, _)
DpChunkLoop(st, paragraphs, doc_id, section, size, overlap) ==
    IF paragraphs = <<>> THEN st
    ELSE LET para == Head(paragraphs)
             next ==
                 IF Len(st.current_chunk) + Len(para) > size
                 THEN [chunks |->
                           IF Strip(st.current_chunk) # <<>>
                           THEN Append(st.chunks,
                                    DpChunk(st.current_chunk, doc_id, section, st.chunk_idx))
                           ELSE st.chunks,
                       chunk_idx |->
                           IF Strip(st.current_chunk) # <<>>
                           THEN st.chunk_idx + 1 ELSE st.chunk_idx,
                       current_chunk |->
                           IF overlap > 0 /\ st.current_chunk # <<>>
                           THEN Tail_n(st.current_chunk, overlap) \o NL2 \o para
                           ELSE para]
                 ELSE [st EXCEPT !.current_chunk =
                           IF @ # <<>> THEN @ \o NL2 \o para ELSE para]
         IN  DpChunkLoop(next, Tail(paragraphs), doc_id, section, size, overlap)

\* section is <<>> for None
_chunk_text(txt, doc_id, section, size, overlap) ==
    LET st == DpChunkLoop([chunks |-> <<>>, current_chunk |-> <<>>, chunk_idx |-> 0],
                          _split_into_paragraphs(txt, size),
                          doc_id, section, size, overlap)
    IN  IF Strip(st.current_chunk) # <<>>
        THEN Append(st.chunks, DpChunk(st.current_chunk, doc_id, section, st.chunk_idx))
        ELSE st.chunks

RECURSIVE DpChunkSections(_, _, _, _)
DpChunkSections(sections, doc_id, size, overlap) ==
    IF sections = <<>> THEN <<>>
    ELSE _chunk_text(Head(sections).content, doc_id, Head(sections).title, size, overlap)
             \o DpChunkSections(Tail(sections), doc_id, size, overlap)

dp_chunk_document(doc, size, overlap, respect) ==
    IF respect /\ doc.sections # <<>>
    THEN DpChunkSections(doc.sections, DocId, size, overlap)
    ELSE _chunk_text(doc.content, DocId, <<>>, size, overlap)

-----------------------------------------------------------------------------
(* Rational numbers <<numerator, denominator>>, denominator > 0, in lowest *)
(* terms: the ratios the compressor computes with floats.                  *)

RECURSIVE Gcd(_, _)
Gcd(a, b) == IF b = 0 THEN a ELSE Gcd(b, a % b)

Abs(a) == IF a < 0 THEN 0 - a ELSE a

Rat(n, d) ==
    LET g == Gcd(Abs(n), d)
    IN  IF g = 0 THEN <<0, 1>> ELSE <<n \div g, d \div g>>

RatMul(a, b) == Rat(a[1] * b[1], a[2] * b[2])
RatLess(a, b) == a[1] * b[2] < b[1] * a[2]
RatMin(a, b) == IF RatLess(b, a) THEN b ELSE a
RatOne == <<1, 1>>

-----------------------------------------------------------------------------
(* Model-delegating compressor: LLMLinguaCompressor.compress.              *)

LEGAL_PRESERVE_TERMS == <<
    <<"h", "o", "l", "d", "i", "n", "g">>,
    <<"h", "e", "l", "d">>,
    <<"a", "f", "f", "i", "r", "m", "e", "d">>,
    <<"r", "e", "v", "e", "r", "s", "e", "d">>,
    <<"r", "e", "m", "a", "n", "d", "e", "d">>,
    <<"p", "l", "a", "i", "n", "t", "i", "f", "f">>,
    <<"d", "e", "f", "e", "n", "d", "a", "n", "t">>,
    <<"a", "p", "p", "e", "l", "l", "a", "n", "t">>,
    <<"a", "p", "p", "e", "l", "l", "e", "e">>,
    <<"j", "u", "d", "g", "m", "e", "n", "t">>,
    <<"o", "r", "d", "e", "r">>,
    <<"m", "o", "t", "i", "o", "n">>,
    <<"p", "e", "t", "i", "t", "i", "o", "n">>,
    <<"w", "r", "i", "t">>,
    <<"s", "t", "a", "t", "u", "t", "e">>,
    <<"r", "e", "g", "u", "l", "a", "t", "i", "o", "n">>,
    <<"c", "o", "n", "s", "t", "i", "t", "u", "t", "i", "o", "n", "a", "l">>,
    <<"a", "m", "e", "n", "d", "m", "e", "n", "t">>,
    <<"p", "r", "e", "c", "e", "d", "e", "n", "t">>,
    <<"s", "t", "a", "r", "e", " ", "d", "e", "c", "i", "s", "i", "s">>,
    <<"r", "a", "t", "i", "o", " ", "d", "e", "c", "i", "d", "e", "n", "d", "i">>,
    <<"o", "b", "i", "t", "e", "r", " ", "d", "i", "c", "t", "u", "m">>,
    <<"p", "r", "i", "m", "a", " ", "f", "a", "c", "i", "e">>,
    <<"d", "e", " ", "f", "a", "c", "t", "o">>,
    <<"d", "e", " ", "j", "u", "r", "e">> >>

\* str.split(): the maximal runs of non-whitespace characters
RECURSIVE WordsFrom(_, _)
WordsFrom(s, pos) ==
    IF pos > Len(s) THEN <<>>
    ELSE IF s[pos] \in Space THEN WordsFrom(s, pos + 1)
    ELSE LET AllChars == {s[k] : k \in 1..Len(s)} \ Space
             n == RunLen(s, pos, AllChars, Unbounded)
         IN  <<SubSeq(s, pos, pos + n - 1)>> \o WordsFrom(s, pos + n)

Words(s) == WordsFrom(s, 1)

\* _estimate_tokens
_estimate_tokens(t) == Len(t) \div TokenChars

\* _extract_citations: list(set(...)) of the matches of every pattern
_extract_citations(t) ==
    UNION {Range(FindAll(CITATION_PATTERNS[i], t, 1)) : i \in 1..Len(CITATION_PATTERNS)}

\* the request compress passes to PromptCompressor.compress_prompt; query is
\* <<>> for None or "" (then no question is passed)
CompressRequest(t, query, ratio, force) ==
    [context      |-> _protect_citations(t).text,
     question     |-> query,
     rate         |-> ratio,
     force_tokens |-> force \o LEGAL_PRESERVE_TERMS]

\* the subsequence of ws at the positions keep
RECURSIVE KeepWords(_, _, _)
KeepWords(ws, keep, k) ==
    IF k > Len(ws) THEN <<>>
    ELSE (IF k \in keep THEN <<ws[k]>> ELSE <<>>) \o KeepWords(ws, keep, k + 1)

\* The external compression model: what compress_prompt may answer to a
\* request.  It drops words of the context, never one that is in force_tokens;
\* its answer may also lack the compressed_prompt key.
ModelResponses(request) ==
    LET ws     == Words(request.context)
        forced == {k \in 1..Len(ws) : ws[k] \in Range(request.force_tokens)}
    IN  {[has_key |-> TRUE, compressed_prompt |-> Join(KeepWords(ws, keep, 1), SP)] :
            keep \in {K \in SUBSET (1..Len(ws)) : forced \subseteq K}}
        \cup {[has_key |-> FALSE, compressed_prompt |-> <<>>]}

\* the CompressionResult of a call that has not returned
NoResult ==
    [compressed_text |-> <<>>, original_tokens |-> 0, compressed_tokens |-> 0,
     compression_ratio |-> RatOne, preserved_citations |-> {}]

\* compress, from the model's answer on
CompressResult(t, preserve, response) ==
    LET p == _protect_citations(t)
        answered == IF response.has_key THEN response.compressed_prompt ELSE p.text
        compressed_text == _restore_citations(answered, p.map)
        original_tokens == _estimate_tokens(t)
        compressed_tokens == _estimate_tokens(compressed_text)
    IN  [compressed_text     |-> compressed_text,
         original_tokens     |-> original_tokens,
         compressed_tokens   |-> compressed_tokens,
         compression_ratio   |-> IF original_tokens > 0
                                 THEN Rat(compressed_tokens, original_tokens)
                                 ELSE RatOne,
         preserved_citations |-> IF preserve THEN _extract_citations(t) ELSE {}]

-----------------------------------------------------------------------------
(* Budget fitting: LLMLinguaCompressor.compress_chunks.  Each calling      *)
(* thread has a frame with the locals of its call; target_ratio is the     *)
(* attribute of the compressor that all the frames read and write.         *)

SourceOpen  == <<"[", "S", "o", "u", "r", "c", "e", ":", " ">>
SourceClose == <<"]", "\n">>
Unknown     == <<"U", "n", "k", "n", "o", "w", "n">>
Separator   == <<"\n", "\n", "-", "-", "-", "\n", "\n">>

\* one block of the combined text; a chunk without a filename in its
\* metadata is attributed to 'Unknown'
ChunkBlock(c) ==
    SourceOpen \o (IF c.has_filename THEN c.filename ELSE Unknown)
               \o SourceClose \o c.content

CombinedText(cs) ==
    Join([i \in 1..Len(cs) |-> ChunkBlock(cs[i])], Separator)

\* min(max_output_tokens / current_tokens, 1.0) if current_tokens > 0 else 1.0
RequiredRatio(current_tokens, max_output_tokens) ==
    IF current_tokens > 0
    THEN RatMin(Rat(max_output_tokens, current_tokens), RatOne)
    ELSE RatOne

\* required_ratio * 0.9, without the buffer in the variant
TightenedRatio_NoBuffer(required_ratio) == required_ratio
TightenedRatio(required_ratio) == RatMul(required_ratio, Rat(9, 10))

NoRequest ==
    [context |-> <<>>, question |-> <<>>, rate |-> RatOne, force_tokens |-> <<>>]

\* the frame of a thread that is not inside compress_chunks: n calls made,
\* the last one ended with outcome
IdleFrame(n, outcome) ==
    [pc |-> "idle", calls |-> n, outcome |-> outcome,
     chunks |-> <<>>, query |-> <<>>, max_output_tokens |-> 0,
     combined_text |-> <<>>, current_tokens |-> 0,
     required_ratio |-> RatOne, original_ratio |-> RatOne,
     request |-> NoRequest, result |-> NoResult]

-----------------------------------------------------------------------------
(* Query orchestration: LegalRAGEngine.query.                              *)

NoMetadata ==
    [case_name |-> <<>>, court |-> <<>>, section |-> <<>>, filename |-> <<>>]

\* the parts of a block's header that the metadata of the chunk provides
SourceInfo(metadata) ==
       (IF metadata.case_name # <<>>
        THEN << <<"C", "a", "s", "e", ":", " ">> \o metadata.case_name >> ELSE <<>>)
    \o (IF metadata.court # <<>>
        THEN << <<"C", "o", "u", "r", "t", ":", " ">> \o metadata.court >> ELSE <<>>)
    \o (IF metadata.section # <<>>
        THEN << <<"S", "e", "c", "t", "i", "o", "n", ":", " ">> \o metadata.section >> ELSE <<>>)
    \o (IF metadata.filename # <<>>
        THEN << <<"F", "i", "l", "e", ":", " ">> \o metadata.filename >> ELSE <<>>)

\* one block of the context: "[Document i]", the parenthesised source list
\* if there is one, a newline and the content; the variant always writes
\* the parentheses
FormatBlock_AlwaysParens(i, chunk) ==
    LET source_info == SourceInfo(chunk.metadata)
        header == <<"[", "D", "o", "c", "u", "m", "e", "n", "t", " ">> \o IntToStr(i) \o <<"]">>
                  \o <<" ", "(">> \o Join(source_info, <<";", " ">>) \o <<")">>
    IN  header \o NL \o chunk.content
FormatBlock(i, chunk) ==
    LET source_info == SourceInfo(chunk.metadata)
        header == <<"[", "D", "o", "c", "u", "m", "e", "n", "t", " ">> \o IntToStr(i) \o <<"]">>
                  \o (IF source_info # <<>>
                      THEN <<" ", "(">> \o Join(source_info, <<";", " ">>) \o <<")">>
                      ELSE <<>>)
    IN  header \o NL \o chunk.content

ContextSeparator == <<"\n", "\n", "-", "-", "-", "\n", "\n">>

_format_context(cs) ==
    Join([i \in 1..Len(cs) |-> FormatBlock(i, cs[i])], ContextSeparator)

EmptyAnswer ==
    <<"N", "o", " ", "r", "e", "l", "e", "v", "a", "n", "t", " ", "d", "o", "c", "u", "m", "e", "n", "t", "s", " ", "f", "o", "u", "n", "d", " ", "f", "o", "r", " ", "y", "o", "u", "r", " ", "q", "u", "e", "r", "y", ".">>

\* what query has not returned yet, and what it raised
NoResponse == [kind |-> "none"]
Raised(error) == [kind |-> "raised", error |-> error]

\* the RAGResponse of a search without matches; the variant has lost the
\* answer
EmptyResponse_NoAnswer(question) ==
    [kind |-> "response", answer |-> <<>>, sources |-> <<>>,
     compressed_context |-> <<>>,
     token_stats |-> [original |-> 0, compressed |-> 0, savings |-> 0],
     query |-> question]
EmptyResponse(question) ==
    [kind |-> "response", answer |-> EmptyAnswer, sources |-> <<>>,
     compressed_context |-> <<>>,
     token_stats |-> [original |-> 0, compressed |-> 0, savings |-> 0],
     query |-> question]

\* the token_stats of the normal path; the variant subtracts the wrong way
TokenStats_Reversed(original_tokens, compressed_tokens) ==
    [original        |-> original_tokens,
     compressed      |-> compressed_tokens,
     savings         |-> compressed_tokens - original_tokens,
     savings_percent |-> IF original_tokens > 0
                         THEN Rat((original_tokens - compressed_tokens) * 100,
                                  original_tokens)
                         ELSE <<0, 1>>]
TokenStats(original_tokens, compressed_tokens) ==
    [original        |-> original_tokens,
     compressed      |-> compressed_tokens,
     savings         |-> original_tokens - compressed_tokens,
     savings_percent |-> IF original_tokens > 0
                         THEN Rat((original_tokens - compressed_tokens) * 100,
                                  original_tokens)
                         ELSE <<0, 1>>]

\* the locals of query when the call starts
NewFrame(question, filter_metadata, include_sources) ==
    [pc |-> "START", question |-> question, filter_metadata |-> filter_metadata,
     include_sources |-> include_sources, retrieved |-> FALSE, chunks |-> <<>>,
     original_context |-> <<>>, original_tokens |-> 0,
     context |-> <<>>, compressed_tokens |-> 0]

-----------------------------------------------------------------------------
(* Construction of the components: create_components of cli.py and         *)
(* get_components of the API.                                              *)

\* LLMLinguaCompressor.__init__ stores its arguments and leaves the model to
\* _ensure_initialized: it raises nothing, whether or not llmlingua is there
ConstructorRaises(model_available) == FALSE

\* try: LLMLinguaCompressor(...) except Exception: SimpleFallbackCompressor(...)
CreateCompressor(model_available) ==
    IF ConstructorRaises(model_available) THEN "fallback" ELSE "llmlingua"

-----------------------------------------------------------------------------
(* Extractive compressor: SimpleFallbackCompressor.                        *)

UpperLetters == <<"A", "B", "C", "D", "E", "F", "G", "H", "I", "J", "K", "L", "M",
                  "N", "O", "P", "Q", "R", "S", "T", "U", "V", "W", "X", "Y", "Z">>
LowerLetters == <<"a", "b", "c", "d", "e", "f", "g", "h", "i", "j", "k", "l", "m",
                  "n", "o", "p", "q", "r", "s", "t", "u", "v", "w", "x", "y", "z">>

\* str.lower()
LowerChar(c) ==
    IF c \in Upper
    THEN LowerLetters[CHOOSE k \in 1..Len(UpperLetters) : UpperLetters[k] = c]
    ELSE c

ToLower(s) == [k \in 1..Len(s) |-> LowerChar(s[k])]

\* SimpleFallbackCompressor._split_sentences: re.split(r'(?<=[.!?])\s+', text),
\* stripped, the empty pieces left out
FallbackSplitSentences(t) == StripNonEmpty(ReSplit(SentenceBoundary, t))

LegalTerms == <<
    <<"c", "o", "u", "r", "t">>,
    <<"h", "e", "l", "d">>,
    <<"h", "o", "l", "d", "i", "n", "g">>,
    <<"p", "l", "a", "i", "n", "t", "i", "f", "f">>,
    <<"d", "e", "f", "e", "n", "d", "a", "n", "t">>,
    <<"j", "u", "d", "g", "m", "e", "n", "t">>,
    <<"r", "u", "l", "i", "n", "g">>,
    <<"s", "t", "a", "t", "u", "t", "e">>,
    <<"p", "r", "e", "c", "e", "d", "e", "n", "t">>,
    <<"a", "f", "f", "i", "r", "m">> >>

\* \d+\s+[A-Z][a-z]*\.\s*\d*d?\s+\d+
ScoreCitation ==
    <<Plus(Digit), Plus(Space), One(Upper), Star(Lower), Lit("."), Star(Space),
      Star(Digit), Opt({"d"}), Plus(Space), Plus(Digit)>>

\* _score_sentence, in half points: 1.0 for each legal term in the sentence,
\* 2.0 for a citation, 0.5 for each term of the query in the sentence
_score_sentence(sentence, query) ==
    LET lowered     == ToLower(sentence)
        query_terms == Words(ToLower(query))
    IN    2 * Cardinality({k \in 1..Len(LegalTerms) :
                              Contains(lowered, ToLower(LegalTerms[k]))})
        + (IF Search(ScoreCitation, sentence) THEN 4 ELSE 0)
        + Cardinality({k \in 1..Len(query_terms) :
                          Contains(lowered, query_terms[k])})

ScoredSentences(sentences, query) ==
    [k \in 1..Len(sentences) |->
        [sent |-> sentences[k], score |-> _score_sentence(sentences[k], query)]]

\* list.sort(key=score, reverse=True): descending, entries of equal score
\* staying in their order
InsertByScore(sorted, x) ==
    LET before == Cardinality({i \in 1..Len(sorted) : sorted[i].score >= x.score})
    IN  SubSeq(sorted, 1, before) \o <<x>> \o SubSeq(sorted, before + 1, Len(sorted))

RECURSIVE SortByScore(_)
SortByScore(scored) ==
    IF scored = <<>> THEN <<>>
    ELSE InsertByScore(SortByScore(SubSeq(scored, 1, Len(scored) - 1)),
                       scored[Len(scored)])

\* max(1, int(len(sentences) * self.target_ratio)); the variant counts the
\* sentences to leave out instead
TargetCount_LeftOut(n, ratio) ==
    LET product == n - (n * ratio[1]) \div ratio[2]
    IN  IF product > 1 THEN product ELSE 1
TargetCount(n, ratio) ==
    LET product == (n * ratio[1]) \div ratio[2]
    IN  IF product > 1 THEN product ELSE 1

\* scored_sentences[:target_count]
SelectedSentences(sentences, query, ratio) ==
    LET sorted == SortByScore(ScoredSentences(sentences, query))
        count  == TargetCount(Len(sentences), ratio)
    IN  SubSeq(sorted, 1, IF count < Len(sorted) THEN count ELSE Len(sorted))

\* [s for s in sentences if s in selected_set]
RECURSIVE KeepSelected(_, _)
KeepSelected(sentences, selected_set) ==
    IF sentences = <<>> THEN <<>>
    ELSE (IF Head(sentences) \in selected_set THEN <<Head(sentences)>> ELSE <<>>)
         \o KeepSelected(Tail(sentences), selected_set)

\* SimpleFallbackCompressor.compress: the locals and the CompressionResult
SimpleCompress(t, query, ratio) ==
    LET sentences       == FallbackSplitSentences(t)
        selected        == SelectedSentences(sentences, query, ratio)
        selected_set    == {selected[k].sent : k \in 1..Len(selected)}
        compressed      == KeepSelected(sentences, selected_set)
        compressed_text == Join(compressed, SP)
    IN  [sentences  |-> sentences,
         selected   |-> selected,
         compressed |-> compressed,
         result     |->
            [compressed_text     |-> compressed_text,
             original_tokens     |-> Len(t) \div 4,
             compressed_tokens   |-> Len(compressed_text) \div 4,
             compression_ratio   |-> IF t # <<>>
                                     THEN Rat(Len(compressed_text), Len(t))
                                     ELSE RatOne,
             preserved_citations |-> {}]]

-----------------------------------------------------------------------------
(* Vector store: ChromaVectorStore.add_chunks.                             *)

\* chunks[i:i + batch_size], i counted from 0
Batch(cs, i, batch_size) ==
    SubSeq(cs, i + 1, IF i + batch_size < Len(cs) THEN i + batch_size ELSE Len(cs))

\* the locals of add_chunks before its loop, and the collection of the store
NewIndexing(cs, batch_size) ==
    [pc |-> "loop", chunks |-> cs, batch_size |-> batch_size, i |-> 0,
     added_count |-> 0, attempts |-> <<>>, collection |-> <<>>, returned |-> 0]

-----------------------------------------------------------------------------
(* Case questions of the engine and the handlers of the API:               *)
(* LegalRAGEngine.analyze_case, compare_cases; api/app.py.                 *)

\* the f-string of analyze_case around the case name
AnalyzePrefix ==
    <<"P", "r", "o", "v", "i", "d", "e", " ", "a", " ", "c", "o", "m", "p",
      "r", "e", "h", "e", "n", "s", "i", "v", "e", " ", "a", "n", "a", "l",
      "y", "s", "i", "s", " ", "o", "f", " ">>
AnalyzeSuffix ==
    <<" ", "i", "n", "c", "l", "u", "d", "i", "n", "g", ":", "\n", "1",
      ".", " ", "K", "e", "y", " ", "f", "a", "c", "t", "s", " ", "o", "f",
      " ", "t", "h", "e", " ", "c", "a", "s", "e", "\n", "2", ".", " ",
      "L", "e", "g", "a", "l", " ", "i", "s", "s", "u", "e", "s", " ", "p",
      "r", "e", "s", "e", "n", "t", "e", "d", "\n", "3", ".", " ", "C",
      "o", "u", "r", "t", "'", "s", " ", "h", "o", "l", "d", "i", "n", "g",
      " ", "a", "n", "d", " ", "r", "e", "a", "s", "o", "n", "i", "n", "g",
      "\n", "4", ".", " ", "S", "i", "g", "n", "i", "f", "i", "c", "a",
      "n", "c", "e", " ", "a", "n", "d", " ", "p", "r", "e", "c", "e", "d",
      "e", "n", "t", "i", "a", "l", " ", "v", "a", "l", "u", "e", "\n",
      "5", ".", " ", "A", "n", "y", " ", "n", "o", "t", "a", "b", "l", "e",
      " ", "d", "i", "s", "s", "e", "n", "t", "s", " ", "o", "r", " ", "c",
      "o", "n", "c", "u", "r", "r", "e", "n", "c", "e", "s">>
AnalyzeQuestion(case_name) == AnalyzePrefix \o case_name \o AnalyzeSuffix

\* filter_metadata={"case_name": case_name} if case_name else None; the
\* variant passes the filter for an empty name too
AnalyzeFilter_Always(case_name) == [given |-> TRUE, case_name |-> case_name]
AnalyzeFilter(case_name) ==
    IF case_name # <<>> THEN [given |-> TRUE, case_name |-> case_name]
    ELSE [given |-> FALSE, case_name |-> <<>>]

\* the f-string of compare_cases around the two case names
ComparePrefix ==
    <<"C", "o", "m", "p", "a", "r", "e", " ", "a", "n", "d", " ", "c", "o",
      "n", "t", "r", "a", "s", "t", " ">>
CompareJoin ==
    <<" ", "a", "n", "d", " ">>
CompareSuffix ==
    <<":", "\n", "1", ".", " ", "H", "o", "w", " ", "d", "o", " ", "t",
      "h", "e", " ", "f", "a", "c", "t", "s", " ", "d", "i", "f", "f", "e",
      "r", "?", "\n", "2", ".", " ", "W", "h", "a", "t", " ", "l", "e",
      "g", "a", "l", " ", "p", "r", "i", "n", "c", "i", "p", "l", "e", "s",
      " ", "d", "o", "e", "s", " ", "e", "a", "c", "h", " ", "c", "a", "s",
      "e", " ", "e", "s", "t", "a", "b", "l", "i", "s", "h", "?", "\n",
      "3", ".", " ", "H", "o", "w", " ", "d", "o", " ", "t", "h", "e", " ",
      "h", "o", "l", "d", "i", "n", "g", "s", " ", "r", "e", "l", "a", "t",
      "e", " ", "t", "o", " ", "e", "a", "c", "h", " ", "o", "t", "h", "e",
      "r", "?", "\n", "4", ".", " ", "A", "r", "e", " ", "t", "h", "e",
      "r", "e", " ", "a", "n", "y", " ", "c", "o", "n", "f", "l", "i", "c",
      "t", "s", " ", "o", "r", " ", "t", "e", "n", "s", "i", "o", "n", "s",
      " ", "b", "e", "t", "w", "e", "e", "n", " ", "t", "h", "e", " ", "c",
      "a", "s", "e", "s", "?", "\n", "5", ".", " ", "W", "h", "i", "c",
      "h", " ", "c", "a", "s", "e", " ", "w", "o", "u", "l", "d", " ", "b",
      "e", " ", "m", "o", "r", "e", " ", "a", "p", "p", "l", "i", "c", "a",
      "b", "l", "e", " ", "i", "n", " ", "d", "i", "f", "f", "e", "r", "e",
      "n", "t", " ", "s", "c", "e", "n", "a", "r", "i", "o", "s", "?">>
CompareQuestion(case1, case2) ==
    ComparePrefix \o case1 \o CompareJoin \o case2 \o CompareSuffix

\* the call a handler makes on the engine: query(request.question),
\* analyze_case(case_name) or compare_cases(case1, case2), each of which ends in
\* self.query with include_sources left at its default
EngineCall(request) ==
    CASE request.endpoint = "query" ->
             NewFrame(request.question, [given |-> FALSE, case_name |-> <<>>], TRUE)
      [] request.endpoint = "analyze-case" ->
             NewFrame(AnalyzeQuestion(request.case1),
                      AnalyzeFilter(request.case1), TRUE)
      [] request.endpoint = "compare-cases" ->
             NewFrame(CompareQuestion(request.case1, request.case2),
                      [given |-> FALSE, case_name |-> <<>>], TRUE)

NoHttp == [status |-> 0]

\* the end of a handler: QueryResponse(answer, sources, token_stats) when the
\* engine returned, and in the except clause
\* HTTPException(status_code=500, detail=str(e)); error names the exception
\* and stands for its message.  The variant answers an exception with an
\* empty success response.
HandlerResult_Swallowed(outcome) ==
    IF outcome.kind = "raised"
    THEN [status |-> 200, answer |-> <<>>, sources |-> <<>>,
          token_stats |-> [original |-> 0, compressed |-> 0, savings |-> 0]]
    ELSE [status |-> 200, answer |-> outcome.answer,
          sources |-> outcome.sources, token_stats |-> outcome.token_stats]
HandlerResult(outcome) ==
    IF outcome.kind = "raised"
    THEN [status |-> 500, detail |-> outcome.error]
    ELSE [status |-> 200, answer |-> outcome.answer,
          sources |-> outcome.sources, token_stats |-> outcome.token_stats]

-----------------------------------------------------------------------------
(* Inputs of the guard: texts assembled from a few pieces.                 *)

MaxPieces == 3

CiteUS    == <<"1", " ", "U", ".", "S", ".", " ", "2">>
CiteCase  == <<"R", "o", " ", "v", ".", " ", "W", "a">>
GuardPieces ==
    { CiteUS, CiteCase, Placeholder(0, 0), Placeholder(4, 0),
      <<" ">>, <<"1">>, <<"a", "n", "d">> }

RECURSIVE PieceSeqs(_, _)
PieceSeqs(P, n) ==
    IF n = 0 THEN {<<>>}
    ELSE LET shorter == PieceSeqs(P, n - 1)
         IN  shorter \cup {Append(q, p) : q \in shorter, p \in P}

GuardTexts == {Flatten(q) : q \in PieceSeqs(GuardPieces, MaxPieces)}

GuardIdle ==
    /\ text = <<>>
    /\ protected_text = <<>>
    /\ citation_map = <<>>
    /\ restored_text = <<>>
    /\ gpc = "idle"

ChunkIdle ==
    /\ document = [sections |-> <<>>, content |-> <<>>]
    /\ chunk_size = 0
    /\ chunk_overlap = 0
    /\ chunks = <<>>
    /\ cpc = "idle"

DpIdle ==
    /\ raw_text = <<>>
    /\ dp_document = [content |-> <<>>, sections |-> <<>>]
    /\ dp_size = 0
    /\ dp_overlap = 0
    /\ respect_sections = FALSE
    /\ dp_chunks = <<>>
    /\ dpc = "idle"

CompIdle ==
    /\ target_ratio = RatOne
    /\ force_tokens = <<>>
    /\ c_text = <<>>
    /\ c_query = <<>>
    /\ preserve_citations = FALSE
    /\ sent = <<>>
    /\ c_result = NoResult
    /\ cmpc = "idle"

BudgetIdle ==
    /\ th = <<>>
    /\ configured_ratio = RatOne
    /\ call_limit = 0
    /\ chunk_lists = {}

QueryIdle ==
    /\ engine = [has_store |-> FALSE, compressor |-> "none",
                 compression_enabled |-> FALSE, has_api_key |-> FALSE,
                 model_available |-> FALSE]
    /\ qframe = [pc |-> "idle"]
    /\ service_calls = <<>>
    /\ rag_response = NoResponse

FallbackIdle == fb_runs = <<>>

StoreIdle == indexing = [pc |-> "idle"]

ApiIdle == api = [pc |-> "idle"]

OverlapIdle == ov = [pc |-> "idle"]

GuardInit ==
    /\ OverlapIdle
    /\ ApiIdle
    /\ StoreIdle
    /\ FallbackIdle
    /\ QueryIdle
    /\ BudgetIdle
    /\ ChunkIdle
    /\ DpIdle
    /\ CompIdle
    /\ text \in GuardTexts
    /\ protected_text = <<>>
    /\ citation_map = <<>>
    /\ restored_text = <<>>
    /\ gpc = "start"

Protect ==
    /\ gpc = "start"
    /\ LET r == _protect_citations(text)
       IN  /\ protected_text' = r.text
           /\ citation_map' = r.map
    /\ gpc' = "protected"
    /\ UNCHANGED <<text, restored_text>>
    /\ UNCHANGED <<chunkVars, dpVars, compVars, budgetVars, queryVars, fallbackVars, storeVars, apiVars, overlapVars>>

Restore ==
    /\ gpc = "protected"
    /\ restored_text' = _restore_citations(protected_text, citation_map)
    /\ gpc' = "restored"
    /\ UNCHANGED <<text, protected_text, citation_map>>
    /\ UNCHANGED <<chunkVars, dpVars, compVars, budgetVars, queryVars, fallbackVars, storeVars, apiVars, overlapVars>>

GuardNext == Protect \/ Restore

SpecGuard == GuardInit /\ [][GuardNext]_vars

-----------------------------------------------------------------------------
(* Inputs of the segmenter: documents assembled from a few pieces; the     *)
(* piece SectionBreak separates the named sections of a document.          *)

MaxDocPieces == 4
MaxChunkSize == 4
MaxOverlap   == 2

SectionBreak == <<"#">>
ChunkPieces ==
    { <<"a", "b", ".", " ", "c">>, <<"d", "d">>, NL2, SP }

SectionName(k) == <<"S">> \o IntToStr(k)

RECURSIVE NameSections(_, _)
NameSections(texts, k) ==
    IF k > Len(texts) THEN <<>>
    ELSE << [name |-> SectionName(k), text |-> texts[k]] >>
             \o NameSections(texts, k + 1)

\* a document whose parser found named sections
NamedDoc(q) ==
    LET texts == Split(Flatten(q), SectionBreak)
    IN  [sections |-> NameSections(texts, 1), content |-> Join(texts, <<"\n">>)]

\* a document without sections
PlainDoc(q) == [sections |-> <<>>, content |-> Flatten(q)]

Documents ==
    {NamedDoc(q) : q \in PieceSeqs(ChunkPieces \cup {SectionBreak}, MaxDocPieces)}
        \cup {PlainDoc(q) : q \in PieceSeqs(ChunkPieces, MaxDocPieces)}

\* the texts of the sections chunk_document works on
SectionTexts(doc) ==
    IF doc.sections # <<>> THEN [k \in 1..Len(doc.sections) |-> doc.sections[k].text]
    ELSE <<doc.content>>

ChunkInit ==
    /\ OverlapIdle
    /\ ApiIdle
    /\ StoreIdle
    /\ FallbackIdle
    /\ QueryIdle
    /\ BudgetIdle
    /\ GuardIdle
    /\ CompIdle
    /\ raw_text = <<>>
    /\ dp_document = [content |-> <<>>, sections |-> <<>>]
    /\ dp_size = 0
    /\ dp_overlap = 0
    /\ respect_sections \in BOOLEAN
    /\ dp_chunks = <<>>
    /\ dpc = "idle"
    /\ document \in Documents
    /\ chunk_size \in 1..MaxChunkSize
    /\ chunk_overlap \in 0..MaxOverlap
    /\ chunks = <<>>
    /\ cpc = "start"

\* LegalChunker(chunk_size, chunk_overlap, respect_sections).chunk_document:
\* the constructor stores respect_sections and chunk_document never reads it
ChunkDocument ==
    /\ cpc = "start"
    /\ chunks' = chunk_document(document, chunk_size, chunk_overlap)
    /\ cpc' = "done"
    /\ UNCHANGED <<document, chunk_size, chunk_overlap>>
    /\ UNCHANGED <<guardVars, dpVars, compVars, budgetVars, queryVars, fallbackVars, storeVars, apiVars, overlapVars>>

ChunkNext == ChunkDocument

SpecChunker == ChunkInit /\ [][ChunkNext]_vars

-----------------------------------------------------------------------------
(* Ingestion with the document processor: the sections are extracted from  *)
(* the file's text, then the document is chunked.                          *)

MaxRawPieces == 4

RawPieces ==
    { SECTION_HEADERS[1] \o NL, SECTION_HEADERS[3] \o NL,
      <<"A", "b", ".", " ", "C", "d", "\n">>, <<"e", "e", "\n">>, NL }

RawTexts == {Flatten(q) : q \in PieceSeqs(RawPieces, MaxRawPieces)}

DpInit ==
    /\ OverlapIdle
    /\ ApiIdle
    /\ StoreIdle
    /\ FallbackIdle
    /\ QueryIdle
    /\ BudgetIdle
    /\ GuardIdle
    /\ ChunkIdle
    /\ CompIdle
    /\ raw_text \in RawTexts
    /\ dp_document = [content |-> <<>>, sections |-> <<>>]
    /\ dp_size \in 1..MaxChunkSize
    /\ dp_overlap \in 0..MaxOverlap
    /\ respect_sections \in BOOLEAN
    /\ dp_chunks = <<>>
    /\ dpc = "start"

\* _process_txt / _process_pdf / _process_docx: the document of a file's text
ProcessFile ==
    /\ dpc = "start"
    /\ dp_document' = [content |-> raw_text, sections |-> _extract_sections(raw_text)]
    /\ dpc' = "processed"
    /\ UNCHANGED <<raw_text, dp_size, dp_overlap, respect_sections, dp_chunks>>
    /\ UNCHANGED <<guardVars, chunkVars, compVars, budgetVars, queryVars, fallbackVars, storeVars, apiVars, overlapVars>>

DpChunkDocument ==
    /\ dpc = "processed"
    /\ dp_chunks' = dp_chunk_document(dp_document, dp_size, dp_overlap, respect_sections)
    /\ dpc' = "done"
    /\ UNCHANGED <<raw_text, dp_document, dp_size, dp_overlap, respect_sections>>
    /\ UNCHANGED <<guardVars, chunkVars, compVars, budgetVars, queryVars, fallbackVars, storeVars, apiVars, overlapVars>>

DpNext == ProcessFile \/ DpChunkDocument

SpecIngest == DpInit /\ [][DpNext]_vars

-----------------------------------------------------------------------------
(* One call of LLMLinguaCompressor.compress; the external model answers    *)
(* or raises.                                                              *)

MaxWords == 3
RatioDen == 2

CompressPieces ==
    { <<"S", "e", "e">>, CiteUS, CiteCase, <<"h", "e", "l", "d">> }

CompressTexts == {Join(q, SP) : q \in PieceSeqs(CompressPieces, MaxWords)}

\* the configured ratios: fractions of the original size, in (0, 1]
Ratios == {Rat(k, RatioDen) : k \in 1..RatioDen}

Queries == {<<>>, <<"R", "o">>}

CompressInit ==
    /\ OverlapIdle
    /\ ApiIdle
    /\ StoreIdle
    /\ FallbackIdle
    /\ QueryIdle
    /\ BudgetIdle
    /\ GuardIdle
    /\ ChunkIdle
    /\ DpIdle
    /\ target_ratio \in Ratios
    /\ force_tokens \in {<<>>, << <<"S", "e", "e">> >>}
    /\ c_text \in CompressTexts
    /\ c_query \in Queries
    /\ preserve_citations \in BOOLEAN
    /\ sent = <<>>
    /\ c_result = NoResult
    /\ cmpc = "start"

\* compress up to the call of compress_prompt
CallModel ==
    /\ cmpc = "start"
    /\ sent' = Append(sent, CompressRequest(c_text, c_query, target_ratio, force_tokens))
    /\ cmpc' = "in_model"
    /\ UNCHANGED <<target_ratio, force_tokens, c_text, c_query, preserve_citations,
                   c_result>>
    /\ UNCHANGED <<guardVars, chunkVars, dpVars, budgetVars, queryVars, fallbackVars, storeVars, apiVars, overlapVars>>

\* compress from the answer of compress_prompt on
ModelReturns ==
    /\ cmpc = "in_model"
    /\ \E response \in ModelResponses(sent[Len(sent)]) :
          c_result' = CompressResult(c_text, preserve_citations, response)
    /\ cmpc' = "done"
    /\ UNCHANGED <<target_ratio, force_tokens, c_text, c_query, preserve_citations,
                   sent>>
    /\ UNCHANGED <<guardVars, chunkVars, dpVars, budgetVars, queryVars, fallbackVars, storeVars, apiVars, overlapVars>>

\* compress_prompt raises: compress passes the exception on
ModelRaises ==
    /\ cmpc = "in_model"
    /\ cmpc' = "raised"
    /\ UNCHANGED <<target_ratio, force_tokens, c_text, c_query, preserve_citations,
                   sent, c_result>>
    /\ UNCHANGED <<guardVars, chunkVars, dpVars, budgetVars, queryVars, fallbackVars, storeVars, apiVars, overlapVars>>

CompressNext == CallModel \/ ModelReturns \/ ModelRaises

SpecCompress == CompressInit /\ [][CompressNext]_vars

-----------------------------------------------------------------------------
(* Calls of compress_chunks on one compressor: a single thread calling     *)
(* several times in sequence, and two threads calling concurrently.        *)

MaxCalls == 2
MaxOutputTokens == 3

ChunkHeld  == [content |-> <<"h", "e", "l", "d">>, has_filename |-> FALSE,
               filename |-> <<>>]
ChunkOrder == [content |-> <<"o", "r", "d", "e", "r">>, has_filename |-> TRUE,
               filename |-> <<"f">>]

ChunkLists == {<<>>, <<ChunkHeld>>, <<ChunkOrder>>, <<ChunkHeld, ChunkOrder>>}

BudgetQuery == <<"R", "o">>

CompressorInit ==
    /\ OverlapIdle
    /\ ApiIdle
    /\ StoreIdle
    /\ FallbackIdle
    /\ QueryIdle
    /\ GuardIdle
    /\ ChunkIdle
    /\ DpIdle
    /\ target_ratio \in Ratios
    /\ configured_ratio = target_ratio
    /\ force_tokens = <<>>
    /\ c_text = <<>>
    /\ c_query = <<>>
    /\ preserve_citations = FALSE
    /\ sent = <<>>
    /\ c_result = NoResult
    /\ cmpc = "idle"

BudgetInit ==
    /\ CompressorInit
    /\ th = [t \in {"A"} |-> IdleFrame(0, "none")]
    /\ call_limit = MaxCalls
    /\ chunk_lists = ChunkLists

RaceInit ==
    /\ CompressorInit
    /\ th = [t \in {"A", "B"} |-> IdleFrame(0, "none")]
    /\ call_limit = 1
    /\ chunk_lists = {<<>>, <<ChunkHeld>>}

BudgetFrame == <<force_tokens, c_text, c_query, preserve_citations, sent,
                 c_result, cmpc, configured_ratio, call_limit, chunk_lists>>

\* compress_chunks up to original_ratio = self.target_ratio
SaveRatio(t) ==
    /\ th[t].pc = "idle"
    /\ th[t].calls < call_limit
    /\ \E cs \in chunk_lists, m \in 0..MaxOutputTokens :
          LET combined == CombinedText(cs)
              current  == _estimate_tokens(combined)
          IN  th' = [th EXCEPT ![t] =
                        [pc |-> "saved", calls |-> th[t].calls + 1,
                         outcome |-> "none", chunks |-> cs,
                         query |-> BudgetQuery, max_output_tokens |-> m,
                         combined_text |-> combined, current_tokens |-> current,
                         required_ratio |-> RequiredRatio(current, m),
                         original_ratio |-> target_ratio,
                         request |-> NoRequest, result |-> NoResult]]
    /\ UNCHANGED <<target_ratio, BudgetFrame>>
    /\ UNCHANGED <<guardVars, chunkVars, dpVars, queryVars, fallbackVars, storeVars, apiVars, overlapVars>>

\* if required_ratio < self.target_ratio
CheckRatio(t) ==
    /\ th[t].pc = "saved"
    /\ th' = [th EXCEPT ![t].pc =
                 IF RatLess(th[t].required_ratio, target_ratio)
                 THEN "tighten" ELSE "compress"]
    /\ UNCHANGED <<target_ratio, BudgetFrame>>
    /\ UNCHANGED <<guardVars, chunkVars, dpVars, queryVars, fallbackVars, storeVars, apiVars, overlapVars>>

\* self.target_ratio = required_ratio * 0.9
TightenRatio(t) ==
    /\ th[t].pc = "tighten"
    /\ target_ratio' = TightenedRatio(th[t].required_ratio)
    /\ th' = [th EXCEPT ![t].pc = "compress"]
    /\ UNCHANGED BudgetFrame
    /\ UNCHANGED <<guardVars, chunkVars, dpVars, queryVars, fallbackVars, storeVars, apiVars, overlapVars>>

\* self.compress(combined_text, query=query) up to the call of compress_prompt,
\* which is given rate=self.target_ratio
CompressCombined(t) ==
    /\ th[t].pc = "compress"
    /\ th' = [th EXCEPT ![t].pc = "in_model",
                        ![t].request = CompressRequest(th[t].combined_text,
                                           th[t].query, target_ratio, force_tokens)]
    /\ UNCHANGED <<target_ratio, BudgetFrame>>
    /\ UNCHANGED <<guardVars, chunkVars, dpVars, queryVars, fallbackVars, storeVars, apiVars, overlapVars>>

\* compress_prompt answers and compress returns its CompressionResult
CombinedAnswered(t) ==
    /\ th[t].pc = "in_model"
    /\ \E response \in ModelResponses(th[t].request) :
          th' = [th EXCEPT ![t].pc = "restore",
                           ![t].result = CompressResult(th[t].combined_text, TRUE,
                                                        response)]
    /\ UNCHANGED <<target_ratio, BudgetFrame>>
    /\ UNCHANGED <<guardVars, chunkVars, dpVars, queryVars, fallbackVars, storeVars, apiVars, overlapVars>>

\* compress_prompt raises: the exception leaves compress and compress_chunks
CombinedRaised(t) ==
    /\ th[t].pc = "in_model"
    /\ th' = [th EXCEPT ![t] = IdleFrame(th[t].calls, "raised")]
    /\ UNCHANGED <<target_ratio, BudgetFrame>>
    /\ UNCHANGED <<guardVars, chunkVars, dpVars, queryVars, fallbackVars, storeVars, apiVars, overlapVars>>

\* self.target_ratio = original_ratio; return result.compressed_text
RestoreRatio(t) ==
    /\ th[t].pc = "restore"
    /\ target_ratio' = th[t].original_ratio
    /\ th' = [th EXCEPT ![t] = IdleFrame(th[t].calls, "returned")]
    /\ UNCHANGED BudgetFrame
    /\ UNCHANGED <<guardVars, chunkVars, dpVars, queryVars, fallbackVars, storeVars, apiVars, overlapVars>>

BudgetNext ==
    \E t \in DOMAIN th :
        \/ SaveRatio(t)
        \/ CheckRatio(t)
        \/ TightenRatio(t)
        \/ CompressCombined(t)
        \/ CombinedAnswered(t)
        \/ CombinedRaised(t)
        \/ RestoreRatio(t)

SpecBudget == BudgetInit /\ [][BudgetNext]_vars

\* two threads, the model answering every call
RaceNext ==
    \E t \in DOMAIN th :
        \/ SaveRatio(t)
        \/ CheckRatio(t)
        \/ TightenRatio(t)
        \/ CompressCombined(t)
        \/ CombinedAnswered(t)
        \/ RestoreRatio(t)

SpecRace == RaceInit /\ [][RaceNext]_vars

-----------------------------------------------------------------------------
(* One call of LegalRAGEngine.query against a store, a compressor and a    *)
(* generation service that answer or raise.                                *)

FoundHeld  == [content |-> <<"h", "e", "l", "d">>, metadata |-> NoMetadata,
               id |-> <<"a">>]
FoundCited == [content |-> CiteUS,
               metadata |-> [NoMetadata EXCEPT !.filename = <<"f">>],
               id |-> <<"b">>]

SearchResults == {<<>>, <<FoundHeld>>, <<FoundCited>>, <<FoundHeld, FoundHeld>>}

Questions == {<<>>, <<"R", "o">>}

NoFilter == [given |-> FALSE, case_name |-> <<>>]
Filters  == {NoFilter, [given |-> TRUE, case_name |-> <<"R", "o">>]}

Answers == {<<>>, <<"o", "k">>}

Engines ==
    [has_store : BOOLEAN, compressor : {"none", "llmlingua", "fallback"},
     compression_enabled : BOOLEAN, has_api_key : BOOLEAN,
     model_available : BOOLEAN]

QueryInit ==
    /\ OverlapIdle
    /\ ApiIdle
    /\ StoreIdle
    /\ FallbackIdle
    /\ GuardIdle
    /\ ChunkIdle
    /\ DpIdle
    /\ BudgetIdle
    /\ target_ratio \in Ratios
    /\ force_tokens = <<>>
    /\ c_text = <<>>
    /\ c_query = <<>>
    /\ preserve_citations = FALSE
    /\ sent = <<>>
    /\ c_result = NoResult
    /\ cmpc = "idle"
    /\ engine \in Engines
    /\ \E question \in Questions, filter_metadata \in Filters,
          include_sources \in BOOLEAN :
          qframe = NewFrame(question, filter_metadata, include_sources)
    /\ service_calls = <<>>
    /\ rag_response = NoResponse

QueryRest == <<guardVars, chunkVars, dpVars, compVars, budgetVars, fallbackVars,
              storeVars, apiVars, overlapVars>>

\* query up to the call of vector_store.search
StartQuery ==
    /\ qframe.pc = "START"
    /\ IF ~engine.has_store
       THEN /\ qframe' = [qframe EXCEPT !.pc = "RAISED"]
            /\ rag_response' = Raised("ValueError")
            /\ UNCHANGED service_calls
       ELSE /\ qframe' = [qframe EXCEPT !.pc = "RETRIEVE"]
            /\ service_calls' = Append(service_calls,
                   [service |-> "search", query |-> qframe.question,
                    filter_metadata |-> qframe.filter_metadata])
            /\ UNCHANGED rag_response
    /\ UNCHANGED <<engine, QueryRest>>

\* search returns its matches: without matches query returns the canned
\* response; the variant goes on to assemble whatever was found
SearchReturns_NoShortCut ==
    /\ qframe.pc = "RETRIEVE"
    /\ \E found \in SearchResults :
          /\ qframe' = [qframe EXCEPT !.pc = "ASSEMBLE",
                                      !.retrieved = TRUE, !.chunks = found]
          /\ UNCHANGED rag_response
    /\ UNCHANGED <<engine, service_calls, QueryRest>>
SearchReturns ==
    /\ qframe.pc = "RETRIEVE"
    /\ \E found \in SearchResults :
          IF found = <<>>
          THEN /\ qframe' = [qframe EXCEPT !.pc = "ANSWER_EMPTY",
                                           !.retrieved = TRUE, !.chunks = found]
               /\ rag_response' = EmptyResponse(qframe.question)
          ELSE /\ qframe' = [qframe EXCEPT !.pc = "ASSEMBLE",
                                           !.retrieved = TRUE, !.chunks = found]
               /\ UNCHANGED rag_response
    /\ UNCHANGED <<engine, service_calls, QueryRest>>

\* search raises: query passes the exception on
SearchRaises ==
    /\ qframe.pc = "RETRIEVE"
    /\ qframe' = [qframe EXCEPT !.pc = "RAISED"]
    /\ rag_response' = Raised("StoreError")
    /\ UNCHANGED <<engine, service_calls, QueryRest>>

\* original_context = self._format_context(chunks) and its token estimate
Assemble ==
    /\ qframe.pc = "ASSEMBLE"
    /\ LET original_context == _format_context(qframe.chunks)
       IN  qframe' = [qframe EXCEPT !.pc = "COMPRESS",
                                    !.original_context = original_context,
                                    !.original_tokens = Len(original_context) \div 4]
    /\ UNCHANGED <<engine, service_calls, rag_response, QueryRest>>

\* if self.compression_enabled and self.compressor: compress(text=, query=,
\* preserve_citations=True), which SimpleFallbackCompressor.compress rejects
\* with a TypeError since it has no parameter preserve_citations; otherwise the
\* assembled context goes on unchanged.  The variant does not look at
\* compression_enabled.
Compress_Always ==
    /\ qframe.pc = "COMPRESS"
    /\ IF engine.compressor # "none"
       THEN IF engine.compressor = "fallback"
            THEN /\ qframe' = [qframe EXCEPT !.pc = "RAISED"]
                 /\ rag_response' = Raised("TypeError")
                 /\ UNCHANGED service_calls
            ELSE /\ qframe' = [qframe EXCEPT !.pc = "IN_COMPRESSOR"]
                 /\ service_calls' = Append(service_calls,
                        [service |-> "compress",
                         request |-> CompressRequest(qframe.original_context,
                                         qframe.question, target_ratio,
                                         force_tokens)])
                 /\ UNCHANGED rag_response
       ELSE /\ qframe' = [qframe EXCEPT !.pc = "GENERATE",
                                        !.context = qframe.original_context,
                                        !.compressed_tokens = qframe.original_tokens]
            /\ UNCHANGED <<service_calls, rag_response>>
    /\ UNCHANGED <<engine, QueryRest>>
Compress ==
    /\ qframe.pc = "COMPRESS"
    /\ IF engine.compression_enabled /\ engine.compressor # "none"
       THEN IF engine.compressor = "fallback"
            THEN /\ qframe' = [qframe EXCEPT !.pc = "RAISED"]
                 /\ rag_response' = Raised("TypeError")
                 /\ UNCHANGED service_calls
            ELSE /\ qframe' = [qframe EXCEPT !.pc = "IN_COMPRESSOR"]
                 /\ service_calls' = Append(service_calls,
                        [service |-> "compress",
                         request |-> CompressRequest(qframe.original_context,
                                         qframe.question, target_ratio,
                                         force_tokens)])
                 /\ UNCHANGED rag_response
       ELSE /\ qframe' = [qframe EXCEPT !.pc = "GENERATE",
                                        !.context = qframe.original_context,
                                        !.compressed_tokens = qframe.original_tokens]
            /\ UNCHANGED <<service_calls, rag_response>>
    /\ UNCHANGED <<engine, QueryRest>>

\* the compressor returns its CompressionResult; _ensure_initialized has
\* found the llmlingua library and loaded the model
CompressorReturns ==
    /\ qframe.pc = "IN_COMPRESSOR"
    /\ engine.model_available
    /\ \E response \in ModelResponses(service_calls[Len(service_calls)].request) :
          LET compression_result ==
                  CompressResult(qframe.original_context, TRUE, response)
          IN  qframe' = [qframe EXCEPT
                  !.pc = "GENERATE",
                  !.context = compression_result.compressed_text,
                  !.compressed_tokens = compression_result.compressed_tokens]
    /\ UNCHANGED <<engine, service_calls, rag_response, QueryRest>>

\* the compressor raises: _ensure_initialized cannot import llmlingua, or
\* the model fails
CompressorRaises ==
    /\ qframe.pc = "IN_COMPRESSOR"
    /\ qframe' = [qframe EXCEPT !.pc = "RAISED"]
    /\ rag_response' = Raised(IF engine.model_available
                              THEN "CompressorError" ELSE "ImportError")
    /\ UNCHANGED <<engine, service_calls, QueryRest>>

\* _generate_response up to the call of the generation service; the client
\* cannot be built without the API key (the variant builds it all the same)
Generate_Unchecked ==
    /\ qframe.pc = "GENERATE"
    /\ qframe' = [qframe EXCEPT !.pc = "IN_GENERATION"]
    /\ service_calls' = Append(service_calls,
           [service |-> "generate", question |-> qframe.question,
            context |-> qframe.context])
    /\ UNCHANGED rag_response
    /\ UNCHANGED <<engine, QueryRest>>
Generate ==
    /\ qframe.pc = "GENERATE"
    /\ IF ~engine.has_api_key
       THEN /\ qframe' = [qframe EXCEPT !.pc = "RAISED"]
            /\ rag_response' = Raised("ValueError")
            /\ UNCHANGED service_calls
       ELSE /\ qframe' = [qframe EXCEPT !.pc = "IN_GENERATION"]
            /\ service_calls' = Append(service_calls,
                   [service |-> "generate", question |-> qframe.question,
                    context |-> qframe.context])
            /\ UNCHANGED rag_response
    /\ UNCHANGED <<engine, QueryRest>>

\* the generation service answers and query returns the RAGResponse
GenerationReturns ==
    /\ qframe.pc = "IN_GENERATION"
    /\ \E answer \in Answers :
          rag_response' =
              [kind |-> "response", answer |-> answer,
               sources |-> IF qframe.include_sources THEN qframe.chunks ELSE <<>>,
               compressed_context |-> qframe.context,
               token_stats |-> TokenStats(qframe.original_tokens,
                                          qframe.compressed_tokens),
               query |-> qframe.question]
    /\ qframe' = [qframe EXCEPT !.pc = "DONE"]
    /\ UNCHANGED <<engine, service_calls, QueryRest>>

\* the generation service raises
GenerationRaises ==
    /\ qframe.pc = "IN_GENERATION"
    /\ qframe' = [qframe EXCEPT !.pc = "RAISED"]
    /\ rag_response' = Raised("GenerationError")
    /\ UNCHANGED <<engine, service_calls, QueryRest>>

Next ==
    \/ StartQuery
    \/ SearchReturns
    \/ SearchRaises
    \/ Assemble
    \/ Compress
    \/ CompressorReturns
    \/ CompressorRaises
    \/ Generate
    \/ GenerationReturns
    \/ GenerationRaises

Spec == QueryInit /\ [][Next]_vars

-----------------------------------------------------------------------------
(* The components are built by create_components, then a query runs on the *)
(* engine it built.                                                        *)

ComponentsInit ==
    /\ OverlapIdle
    /\ ApiIdle
    /\ StoreIdle
    /\ FallbackIdle
    /\ GuardIdle
    /\ ChunkIdle
    /\ DpIdle
    /\ BudgetIdle
    /\ target_ratio \in Ratios
    /\ force_tokens = <<>>
    /\ c_text = <<>>
    /\ c_query = <<>>
    /\ preserve_citations = FALSE
    /\ sent = <<>>
    /\ c_result = NoResult
    /\ cmpc = "idle"
    /\ \E model_available \in BOOLEAN, has_api_key \in BOOLEAN :
          engine = [has_store |-> FALSE, compressor |-> "none",
                    compression_enabled |-> FALSE, has_api_key |-> has_api_key,
                    model_available |-> model_available]
    /\ \E question \in Questions, filter_metadata \in Filters,
          include_sources \in BOOLEAN :
          qframe = [NewFrame(question, filter_metadata, include_sources)
                        EXCEPT !.pc = "BUILD"]
    /\ service_calls = <<>>
    /\ rag_response = NoResponse

\* create_components: the store, the compressor and the engine with its
\* default compression_enabled=True
CreateComponents ==
    /\ qframe.pc = "BUILD"
    /\ engine' = [engine EXCEPT
                     !.has_store = TRUE,
                     !.compressor = CreateCompressor(engine.model_available),
                     !.compression_enabled = TRUE]
    /\ qframe' = [qframe EXCEPT !.pc = "START"]
    /\ UNCHANGED <<service_calls, rag_response, QueryRest>>

ComponentsNext ==
    \/ CreateComponents
    \/ StartQuery
    \/ SearchReturns
    \/ SearchRaises
    \/ Assemble
    \/ Compress
    \/ CompressorReturns
    \/ CompressorRaises
    \/ Generate
    \/ GenerationReturns
    \/ GenerationRaises

SpecComponents == ComponentsInit /\ [][ComponentsNext]_vars

-----------------------------------------------------------------------------
(* Calls of SimpleFallbackCompressor.compress on one text and query, the   *)
(* target_ratio of the compressor set anew before each call.               *)

MaxSentences == 3
MaxRuns == 2

CiteF3d == <<"1", " ", "F", ".", "3", "d", " ", "2", ".">>

SentencePieces ==
    { <<"h", "e", "l", "d", ".">>, <<"S", "e", "e", ".">>,
      <<"R", "o", "!">>, CiteF3d }

FallbackTexts == {Join(q, SP) : q \in PieceSeqs(SentencePieces, MaxSentences)}

FallbackInit ==
    /\ OverlapIdle
    /\ ApiIdle
    /\ StoreIdle
    /\ GuardIdle
    /\ ChunkIdle
    /\ DpIdle
    /\ BudgetIdle
    /\ QueryIdle
    /\ target_ratio \in Ratios
    /\ force_tokens = <<>>
    /\ c_text \in FallbackTexts
    /\ c_query \in Queries
    /\ preserve_citations = FALSE
    /\ sent = <<>>
    /\ c_result = NoResult
    /\ cmpc = "idle"
    /\ fb_runs = <<>>

\* compressor.target_ratio = ratio; compressor.compress(text, query)
FallbackCompress ==
    /\ Len(fb_runs) < MaxRuns
    /\ \E ratio \in Ratios :
          /\ target_ratio' = ratio
          /\ fb_runs' = Append(fb_runs,
                 [ratio |-> ratio] @@ SimpleCompress(c_text, c_query, ratio))
    /\ UNCHANGED <<force_tokens, c_text, c_query, preserve_citations, sent,
                   c_result, cmpc>>
    /\ UNCHANGED <<guardVars, chunkVars, dpVars, budgetVars, queryVars, storeVars, apiVars, overlapVars>>

FallbackNext == FallbackCompress

SpecFallback == FallbackInit /\ [][FallbackNext]_vars

-----------------------------------------------------------------------------
(* One call of add_chunks against a store whose add succeeds or raises.    *)

MaxStoreChunks == 5
MaxBatchSize == 3

StoreInit ==
    /\ OverlapIdle
    /\ ApiIdle
    /\ GuardIdle
    /\ ChunkIdle
    /\ DpIdle
    /\ CompIdle
    /\ BudgetIdle
    /\ QueryIdle
    /\ FallbackIdle
    /\ \E n \in 0..MaxStoreChunks, batch_size \in 1..MaxBatchSize :
          indexing = NewIndexing([k \in 1..n |-> k], batch_size)

StoreRest == <<guardVars, chunkVars, dpVars, compVars, budgetVars, queryVars,
               fallbackVars, apiVars, overlapVars>>

\* one round of the loop, self._collection.add returning
BatchAdded ==
    /\ indexing.pc = "loop"
    /\ indexing.i < Len(indexing.chunks)
    /\ LET batch == Batch(indexing.chunks, indexing.i, indexing.batch_size)
       IN  indexing' = [indexing EXCEPT
               !.collection  = @ \o batch,
               !.added_count = @ + Len(batch),
               !.attempts    = Append(@, [first |-> indexing.i, batch |-> batch,
                                          ok |-> TRUE]),
               !.i           = @ + indexing.batch_size]
    /\ UNCHANGED StoreRest

\* one round of the loop, self._collection.add raising: the exception is
\* caught and the loop goes on; the variant lets it pass
BatchFailed_Uncaught ==
    /\ indexing.pc = "loop"
    /\ indexing.i < Len(indexing.chunks)
    /\ LET batch == Batch(indexing.chunks, indexing.i, indexing.batch_size)
       IN  indexing' = [indexing EXCEPT
               !.pc       = "raised",
               !.attempts = Append(@, [first |-> indexing.i, batch |-> batch,
                                       ok |-> FALSE])]
    /\ UNCHANGED StoreRest
BatchFailed ==
    /\ indexing.pc = "loop"
    /\ indexing.i < Len(indexing.chunks)
    /\ LET batch == Batch(indexing.chunks, indexing.i, indexing.batch_size)
       IN  indexing' = [indexing EXCEPT
               !.attempts = Append(@, [first |-> indexing.i, batch |-> batch,
                                       ok |-> FALSE]),
               !.i        = @ + indexing.batch_size]
    /\ UNCHANGED StoreRest

\* the loop is over: return added_count
AddChunksReturns ==
    /\ indexing.pc = "loop"
    /\ indexing.i >= Len(indexing.chunks)
    /\ indexing' = [indexing EXCEPT !.pc = "returned",
                                    !.returned = indexing.added_count]
    /\ UNCHANGED StoreRest

StoreNext == BatchAdded \/ BatchFailed \/ AddChunksReturns

SpecStore == StoreInit /\ [][StoreNext]_vars

-----------------------------------------------------------------------------
(* Specification of the API handlers query, analyze_case and               *)
(* compare_cases around the engine.                                        *)

CaseNames == {<<>>, <<"R", "o">>}

Requests ==
    [endpoint : {"query"}, question : Questions, case1 : {<<>>}, case2 : {<<>>}]
    \cup [endpoint : {"analyze-case"}, question : {<<>>}, case1 : CaseNames,
          case2 : {<<>>}]
    \cup [endpoint : {"compare-cases"}, question : {<<>>}, case1 : CaseNames,
          case2 : CaseNames]

\* get_components builds the engine with a vector store, a compressor and
\* compression left enabled; the key and the llmlingua library are the
\* environment's
ApiEngines ==
    {[has_store |-> TRUE, compressor |-> CreateCompressor(model_available),
      compression_enabled |-> TRUE, has_api_key |-> has_api_key,
      model_available |-> model_available] :
        has_api_key \in BOOLEAN, model_available \in BOOLEAN}

ApiInit ==
    /\ OverlapIdle
    /\ StoreIdle
    /\ FallbackIdle
    /\ GuardIdle
    /\ ChunkIdle
    /\ DpIdle
    /\ BudgetIdle
    /\ target_ratio \in Ratios
    /\ force_tokens = <<>>
    /\ c_text = <<>>
    /\ c_query = <<>>
    /\ preserve_citations = FALSE
    /\ sent = <<>>
    /\ c_result = NoResult
    /\ cmpc = "idle"
    /\ engine \in ApiEngines
    /\ qframe = [pc |-> "idle"]
    /\ service_calls = <<>>
    /\ rag_response = NoResponse
    /\ \E request \in Requests :
          api = [pc |-> "RECEIVED", request |-> request, http |-> NoHttp]

ApiRest == <<guardVars, chunkVars, dpVars, compVars, budgetVars, fallbackVars,
            storeVars, overlapVars>>

\* the handler enters its try block and calls the engine
HandlerCalls ==
    /\ api.pc = "RECEIVED"
    /\ qframe' = EngineCall(api.request)
    /\ api' = [api EXCEPT !.pc = "IN_ENGINE"]
    /\ UNCHANGED <<engine, service_calls, rag_response, ApiRest>>

\* the engine has returned or raised: the handler builds its QueryResponse or
\* raises the HTTPException of its except clause
HandlerEnds ==
    /\ api.pc = "IN_ENGINE"
    /\ rag_response # NoResponse
    /\ api' = [api EXCEPT !.pc = "RESPONDED",
                          !.http = HandlerResult(rag_response)]
    /\ UNCHANGED <<queryVars, ApiRest>>

ApiNext ==
    \/ HandlerCalls
    \/ StartQuery
    \/ SearchReturns
    \/ SearchRaises
    \/ Assemble
    \/ Compress
    \/ CompressorReturns
    \/ CompressorRaises
    \/ Generate
    \/ GenerationReturns
    \/ GenerationRaises
    \/ HandlerEnds

SpecApi == ApiInit /\ [][ApiNext]_vars

-----------------------------------------------------------------------------
(* Specification of the context assembly alone: query at its step 2, on    *)
(* search results with every combination of metadata fields.               *)

MaxMatches == 2

MetadataSets ==
    [case_name : {<<>>, <<"R", "o">>}, court : {<<>>, <<"c", "t">>},
     section : {<<>>, <<"S", "1">>}, filename : {<<>>, <<"f">>}]

Matches ==
    [content : {<<"h", "e", "l", "d">>, <<>>}, metadata : MetadataSets,
     id : {<<"a">>}]

RECURSIVE MatchLists(_)
MatchLists(n) ==
    IF n = 0 THEN {<<>>}
    ELSE MatchLists(n - 1)
         \cup {Append(found, m) : found \in {l \in MatchLists(n - 1) : Len(l) = n - 1},
                                  m \in Matches}

FormatInit ==
    /\ OverlapIdle
    /\ ApiIdle
    /\ StoreIdle
    /\ FallbackIdle
    /\ GuardIdle
    /\ ChunkIdle
    /\ DpIdle
    /\ BudgetIdle
    /\ CompIdle
    /\ engine \in {e \in Engines : e.has_store /\ e.has_api_key /\ e.model_available
                                    /\ e.compressor = "llmlingua"}
    /\ \E found \in MatchLists(MaxMatches) \ {<<>>} :
          qframe = [NewFrame(<<"R", "o">>, NoFilter, TRUE) EXCEPT
                       !.pc = "ASSEMBLE", !.retrieved = TRUE, !.chunks = found]
    /\ service_calls = << [service |-> "search", query |-> <<"R", "o">>,
                           filter_metadata |-> NoFilter] >>
    /\ rag_response = NoResponse

FormatNext == Assemble

SpecFormat == FormatInit /\ [][FormatNext]_vars

-----------------------------------------------------------------------------
(* Specification of _get_overlap alone: one call on a buffer of units, as   *)
(* chunk_document makes it when it closes a chunk.                         *)

MaxBufferUnits == 3
MaxSeed == 5

\* units as the buffer holds them: stripped, not empty
OverlapUnits ==
    { <<"a", "b", ".">>, <<"c">>, <<"d", " ", "e">> }

Buffers == PieceSeqs(OverlapUnits, MaxBufferUnits)

OverlapInit ==
    /\ ApiIdle
    /\ StoreIdle
    /\ FallbackIdle
    /\ QueryIdle
    /\ BudgetIdle
    /\ GuardIdle
    /\ ChunkIdle
    /\ DpIdle
    /\ CompIdle
    /\ \E units \in Buffers, overlap \in -1..MaxSeed :
          ov = [pc |-> "start", units |-> units, chunk_overlap |-> overlap,
                overlap_text |-> <<>>]

OverlapRest == <<guardVars, chunkVars, dpVars, compVars, budgetVars, queryVars,
                fallbackVars, storeVars, apiVars>>

\* overlap_text = self._get_overlap(current_chunk)
GetOverlap ==
    /\ ov.pc = "start"
    /\ ov' = [ov EXCEPT !.pc = "done",
                        !.overlap_text = _get_overlap(ov.units, ov.chunk_overlap)]
    /\ UNCHANGED OverlapRest

OverlapNext == GetOverlap

SpecOverlap == OverlapInit /\ [][OverlapNext]_vars

-----------------------------------------------------------------------------
\* C1: restoring the output of citation protection gives back the input
\* exactly, for any text, including texts that already contain a substring
\* shaped like a placeholder token.
C1_RoundTrip == gpc = "restored" => restored_text = text


\* the paragraphs of a section text, stripped, the empty ones left out
ParagraphsOf(txt) == StripNonEmpty(Split(txt, NL2))

\* the units of a section text: its paragraphs, and the sentences of each
\* paragraph longer than chunk_size
RECURSIVE UnitsFrom(_, _)
UnitsFrom(paragraphs, size) ==
    IF paragraphs = <<>> THEN <<>>
    ELSE (IF Len(Head(paragraphs)) > size THEN _split_sentences(Head(paragraphs))
          ELSE <<Head(paragraphs)>>) \o UnitsFrom(Tail(paragraphs), size)

UnitsOf(txt, size) == UnitsFrom(ParagraphsOf(txt), size)

\* the contents of the chunks of the section at position sidx, in order
RECURSIVE ContentsOf(_, _)
ContentsOf(cs, sidx) ==
    IF cs = <<>> THEN <<>>
    ELSE (IF Head(cs).sidx = sidx THEN <<Head(cs).content>> ELSE <<>>)
             \o ContentsOf(Tail(cs), sidx)

\* the chunk_ids of the chunks of the section at position sidx, in order
RECURSIVE IdsOf(_, _)
IdsOf(cs, sidx) ==
    IF cs = <<>> THEN <<>>
    ELSE (IF Head(cs).sidx = sidx THEN <<Head(cs).chunk_id>> ELSE <<>>)
             \o IdsOf(Tail(cs), sidx)

SectionNameAt(doc, sidx) ==
    IF doc.sections # <<>> THEN doc.sections[sidx].name ELSE CONTENT

\* C2: every chunk of chunk_document is at most chunk_size + chunk_overlap
\* characters long, separators included, unless it holds a sentence longer
\* than chunk_size.
HasOversizedSentence(c, sidx) ==
    \E u \in Range(UnitsOf(SectionTexts(document)[sidx], chunk_size)) :
        Len(u) > chunk_size /\ Contains(c, u)

C2_SizeBound ==
    cpc = "done" =>
        \A k \in 1..Len(chunks) :
            \/ Len(chunks[k].content) <= chunk_size + chunk_overlap
            \/ HasOversizedSentence(chunks[k].content, chunks[k].sidx)

\* C3: in a document with several named sections the ordinals of the
\* chunk_ids restart at 0 in each section and run 0..n-1 within it.
C3_OrdinalsRestart ==
    (cpc = "done" /\ Len(document.sections) >= 2) =>
        \A sidx \in 1..Len(document.sections) :
            LET ids == IdsOf(chunks, sidx)
            IN  \A n \in 1..Len(ids) :
                    ids[n] = DocId \o <<"_">> \o SectionNameAt(document, sidx)
                                 \o <<"_">> \o IntToStr(n - 1)

\* C4: chunk_document drops nothing: the units of every section appear
\* whole and in their order in the chunks of that section, the last unit in
\* the section's last chunk.
RECURSIVE InOrder(_, _, _, _)
InOrder(units, contents, k, c) ==
    IF k > Len(units) THEN TRUE
    ELSE IF c > Len(contents) THEN FALSE
    ELSE IF Contains(contents[c], units[k]) THEN InOrder(units, contents, k + 1, c)
    ELSE InOrder(units, contents, k, c + 1)

SectionKept(sidx) ==
    LET units    == UnitsOf(SectionTexts(document)[sidx], chunk_size)
        contents == ContentsOf(chunks, sidx)
    IN  /\ InOrder(units, contents, 1, 1)
        /\ units # <<>> =>
              /\ contents # <<>>
              /\ Contains(contents[Len(contents)], units[Len(units)])

C4_NoContentLoss ==
    cpc = "done" => \A sidx \in 1..Len(SectionTexts(document)) : SectionKept(sidx)

\* C4 witness: a section that was cut into sentences, closed at least one
\* chunk and flushed its last units below the size threshold
C4_Witness ==
    /\ cpc = "done"
    /\ Len(document.sections) >= 2
    /\ \E sidx \in 1..Len(document.sections) :
          /\ Len(ContentsOf(chunks, sidx)) >= 2
          /\ \E p \in Range(ParagraphsOf(document.sections[sidx].text)) :
                Len(p) > chunk_size
          /\ LET contents == ContentsOf(chunks, sidx)
             IN  Len(contents[Len(contents)]) < chunk_size

\* C5: no two chunks returned by one call of chunk_document
\* (src/document_processor/chunker.py) have the same chunk_id.
C5_UniqueChunkIds ==
    dpc = "done" =>
        \A j, k \in 1..Len(dp_chunks) :
            dp_chunks[j].chunk_id = dp_chunks[k].chunk_id => j = k

\* C6: with preserve_citations true every citation matched in the input is
\* present verbatim in compressed_text, whatever the external model drops
\* outside its force-keep list.
C6_CitationsSurvive ==
    (cmpc = "done" /\ preserve_citations) =>
        \A c \in _extract_citations(c_text) : Contains(c_result.compressed_text, c)

\* the rate the budget rule prescribes for current_tokens, max_output_tokens
\* and a target ratio
PrescribedRate(current_tokens, max_output_tokens, ratio) ==
    IF current_tokens * ratio[1] > max_output_tokens * ratio[2]
    THEN RatMul(Rat(max_output_tokens, current_tokens), Rat(9, 10))
    ELSE ratio

C8_RatioRestored ==
    (\A t \in DOMAIN th : th[t].pc = "idle") => target_ratio = configured_ratio

\* C9: when two compress_chunks calls run concurrently on one compressor, each
\* passes the model a rate computed from the configured target_ratio and its
\* own inputs, and once both have finished target_ratio is the configured
\* value.
C9_CallsIndependent ==
    /\ \A t \in DOMAIN th :
          th[t].pc \in {"in_model", "restore"} =>
              th[t].request.rate =
                  PrescribedRate(th[t].current_tokens, th[t].max_output_tokens,
                                 configured_ratio)
    /\ (\A t \in DOMAIN th : th[t].pc = "idle" /\ th[t].calls = call_limit)
           => target_ratio = configured_ratio

NoMatchPhrase ==
    <<"N", "o", " ", "r", "e", "l", "e", "v", "a", "n", "t", " ",
      "d", "o", "c", "u", "m", "e", "n", "t", "s", " ", "f", "o", "u", "n", "d">>

\* C10: when the store's search returns no matches, query returns, without
\* raising, a response whose answer contains "No relevant documents found",
\* whose sources and compressed_context are empty and whose token_stats have
\* original, compressed and savings equal to 0.
C10_EmptyRetrieval ==
    (qframe.pc # "idle" /\ qframe.retrieved /\ qframe.chunks = <<>>) =>
        /\ qframe.pc = "ANSWER_EMPTY"
        /\ rag_response.kind = "response"
        /\ Contains(rag_response.answer, NoMatchPhrase)
        /\ rag_response.sources = <<>>
        /\ rag_response.compressed_context = <<>>
        /\ rag_response.token_stats.original = 0
        /\ rag_response.token_stats.compressed = 0
        /\ rag_response.token_stats.savings = 0

\* a search came back without matches and query has returned
C10_Witness ==
    /\ qframe.pc = "ANSWER_EMPTY"
    /\ qframe.retrieved
    /\ qframe.chunks = <<>>
    /\ Len(service_calls) = 1
    /\ rag_response.kind = "response"

\* C11: every RAGResponse query returns, on the empty-retrieval path as on the
\* normal path, has a token_stats record with the four fields original,
\* compressed, savings and savings_percent.
C11_TokenStatsFields ==
    rag_response.kind = "response" =>
        DOMAIN rag_response.token_stats =
            {"original", "compressed", "savings", "savings_percent"}

\* the context the generation service was sent by the call
GenerationContext == service_calls[Len(service_calls)].context

\* C12: on the non-empty path of query, token_stats has original = len of the
\* assembled context div 4, compressed = the token estimate of the context
\* sent to generation, savings = original - compressed and savings_percent =
\* savings/original*100, or 0 when original is 0; 400 characters compressed to
\* 120 give 100, 30, 70 and 70.
C12_TokenStats ==
    /\ qframe.pc = "DONE" =>
          LET stats      == rag_response.token_stats
              original   == Len(_format_context(qframe.chunks)) \div 4
              compressed == Len(GenerationContext) \div 4
          IN  /\ stats.original = original
              /\ stats.compressed = compressed
              /\ stats.savings = original - compressed
              /\ stats.savings_percent[1] * original
                     = (original - compressed) * 100 * stats.savings_percent[2]
              /\ original = 0 => stats.savings_percent = <<0, 1>>
    /\ TokenStats(400 \div 4, 120 \div 4) =
           [original |-> 100, compressed |-> 30, savings |-> 70,
            savings_percent |-> <<70, 1>>]
    /\ TokenStats(0, 0).savings_percent = <<0, 1>>

\* a query has returned a response whose context the compressor shortened
C12_Witness ==
    /\ qframe.pc = "DONE"
    /\ rag_response.kind = "response"
    /\ rag_response.token_stats.savings > 0
    /\ Len(service_calls) = 3

\* the services query has called, in order
ServicesCalled == [i \in 1..Len(service_calls) |-> service_calls[i].service]

\* the order of the external calls of one query
CallsInOrder ==
    /\ ServicesCalled \in
           { <<>>, <<"search">>, <<"search", "compress">>,
             <<"search", "generate">>, <<"search", "compress", "generate">> }
    /\ (qframe.pc # "START" /\ engine.has_store) => Len(ServicesCalled) >= 1
    /\ Len(ServicesCalled) >= 2 => (qframe.retrieved /\ qframe.chunks # <<>>)
    /\ qframe.pc = "ANSWER_EMPTY" => ServicesCalled = <<"search">>
    /\ qframe.pc \in {"IN_GENERATION", "DONE"} =>
           ServicesCalled[Len(ServicesCalled)] = "generate"

\* the positions one step of query may lead to
QueryStep ==
    <<qframe.pc, qframe'.pc>> \in
        { <<"START", "RETRIEVE">>, <<"START", "RAISED">>,
          <<"RETRIEVE", "ANSWER_EMPTY">>, <<"RETRIEVE", "ASSEMBLE">>,
          <<"RETRIEVE", "RAISED">>,
          <<"ASSEMBLE", "COMPRESS">>,
          <<"COMPRESS", "IN_COMPRESSOR">>, <<"COMPRESS", "GENERATE">>,
          <<"COMPRESS", "RAISED">>,
          <<"IN_COMPRESSOR", "GENERATE">>, <<"IN_COMPRESSOR", "RAISED">>,
          <<"GENERATE", "IN_GENERATION">>, <<"GENERATE", "RAISED">>,
          <<"IN_GENERATION", "DONE">>, <<"IN_GENERATION", "RAISED">> }

\* C13: each query goes START, RETRIEVE, then ANSWER_EMPTY or ASSEMBLE,
\* COMPRESS, GENERATE, DONE: search is called exactly once and first, the
\* compressor and the generation service at most once each, the compressor
\* before the generation service and only after a non-empty search result; on
\* the empty path neither of the two is called.
C13_QueryOrder == [](CallsInOrder) /\ [][QueryStep]_vars

\* a query went through all three services and returned
C13_Witness ==
    /\ qframe.pc = "DONE"
    /\ ServicesCalled = <<"search", "compress", "generate">>

\* C14: with compression enabled and a non-empty search result, the call
\* compress(text, query, preserve_citations=True) of the COMPRESS step is
\* accepted by whichever of the two compressors the engine has, so that the
\* query goes on to GENERATE.
C14_CompressAccepted ==
    (/\ engine.compression_enabled
     /\ engine.compressor \in {"llmlingua", "fallback"}
     /\ qframe.retrieved
     /\ qframe.chunks # <<>>
     /\ qframe.pc = "RAISED")
        => rag_response.error # "TypeError"

\* C15: when the compression model cannot be initialised, the components are
\* built with the extractive fallback as the compressor, and a query with a
\* non-empty search result does not fail because of the compressor.
C15_FallbackSubstituted ==
    (qframe.pc # "BUILD" /\ ~engine.model_available) =>
        /\ engine.compressor = "fallback"
        /\ (qframe.pc = "RAISED" /\ qframe.retrieved /\ qframe.chunks # <<>>)
               => rag_response.error \notin {"ImportError", "TypeError"}

RECURSIVE AddedIn(_)
AddedIn(attempts) ==
    IF attempts = <<>> THEN 0
    ELSE (IF Head(attempts).ok THEN Len(Head(attempts).batch) ELSE 0)
         + AddedIn(Tail(attempts))

\* the chunks of all the attempts, in the order of the attempts
RECURSIVE Attempted(_)
Attempted(attempts) ==
    IF attempts = <<>> THEN <<>>
    ELSE Head(attempts).batch \o Attempted(Tail(attempts))

\* C17: for any pattern of store failures, add_chunks attempts every batch
\* exactly once and in order, never raises because a batch failed, and returns
\* the sum of the sizes of exactly the batches whose add succeeded.
C17_BatchesCounted ==
    /\ indexing.pc \in {"loop", "returned"}
    /\ \A k \in 1..Len(indexing.attempts) :
          /\ indexing.attempts[k].first = (k - 1) * indexing.batch_size
          /\ Len(indexing.attempts[k].batch) >= 1
          /\ Len(indexing.attempts[k].batch) <= indexing.batch_size
    /\ Attempted(indexing.attempts) =
           SubSeq(indexing.chunks, 1, Len(Attempted(indexing.attempts)))
    /\ indexing.pc = "returned" =>
          /\ Attempted(indexing.attempts) = indexing.chunks
          /\ indexing.returned = AddedIn(indexing.attempts)
          /\ indexing.returned = Len(indexing.collection)

\* add_chunks returned after a batch failed and a later batch was added
C17_Witness ==
    /\ indexing.pc = "returned"
    /\ \E j, k \in 1..Len(indexing.attempts) :
          j < k /\ ~indexing.attempts[j].ok /\ indexing.attempts[k].ok
    /\ indexing.returned < Len(indexing.chunks)

\* what holds of a query on an engine without credentials of the generation
\* service
NoCredentials ==
    ~engine.has_api_key =>
        /\ (qframe.retrieved /\ qframe.chunks = <<>>) =>
               (qframe.pc = "ANSWER_EMPTY" /\ rag_response.kind = "response")
        /\ (qframe.retrieved /\ qframe.chunks # <<>>) =>
               (rag_response.kind # "response"
                /\ qframe.pc \notin {"IN_GENERATION", "DONE"}
                /\ \A k \in 1..Len(service_calls) :
                       service_calls[k].service # "generate")
        /\ (qframe.pc = "RAISED" /\ engine.has_store
                /\ rag_response.error = "ValueError") =>
               /\ qframe.retrieved
               /\ qframe.chunks # <<>>
               /\ (engine.compression_enabled /\ engine.compressor # "none") =>
                      ServicesCalled = <<"search", "compress">>

\* without credentials the step taken at GENERATE raises the ValueError
CredentialStep ==
    (qframe.pc = "GENERATE" /\ ~engine.has_api_key) =>
        (qframe'.pc = "RAISED" /\ rag_response' = Raised("ValueError"))

\* C18: missing credentials of the generation service fail neither the
\* construction of the engine nor a query whose search result is empty; with a
\* non-empty search result the query raises the credential error at GENERATE,
\* after retrieval and compression, and returns no RAGResponse.
C18_CredentialsAtFirstUse == [](NoCredentials) /\ [][CredentialStep]_vars

\* a query without credentials got through retrieval and compression and
\* raised at GENERATE
C18_Witness ==
    /\ ~engine.has_api_key
    /\ qframe.pc = "RAISED"
    /\ rag_response = Raised("ValueError")
    /\ ServicesCalled = <<"search", "compress">>

\* C19: when the engine raised while a handler (query, analyze-case,
\* compare-cases) was answering, the handler's response is the failure
\* response with the exception's message as its detail; a success response
\* is only ever built from a returned RAGResponse.
C19_ExceptionsSurface ==
    api.pc = "RESPONDED" =>
        /\ rag_response.kind = "raised" =>
               /\ api.http.status = 500
               /\ api.http.detail = rag_response.error
        /\ api.http.status = 200 =>
               /\ rag_response.kind = "response"
               /\ api.http.answer = rag_response.answer

\* a compare-cases request answered with a failure after the generation
\* service raised
C19_Witness ==
    /\ api.pc = "RESPONDED"
    /\ api.request.endpoint = "compare-cases"
    /\ rag_response = Raised("GenerationError")
    /\ api.http = [status |-> 500, detail |-> "GenerationError"]

\* ceil(n * ratio) for a ratio num/den
CeilOfProduct(n, ratio) == (n * ratio[1] + ratio[2] - 1) \div ratio[2]

\* C20: SimpleFallbackCompressor.compress selects the top
\* ceil(len(sentences) * target_ratio) sentences by score, sentences of equal
\* score in their original order, for every sentence count and every
\* target_ratio in (0, 1].
C20_TopCeil ==
    \A i \in 1..Len(fb_runs) :
        LET run    == fb_runs[i]
            ranked == SortByScore(ScoredSentences(run.sentences, c_query))
            count  == CeilOfProduct(Len(run.sentences), run.ratio)
        IN  run.sentences # <<>> =>
                run.selected = SubSeq(ranked, 1, count)

\* a is b with some of its positions left out
RECURSIVE IsSubsequence(_, _)
IsSubsequence(a, b) ==
    IF a = <<>> THEN TRUE
    ELSE IF b = <<>> THEN FALSE
    ELSE IF Head(a) = Head(b) THEN IsSubsequence(Tail(a), Tail(b))
    ELSE IsSubsequence(a, Tail(b))

\* how many positions of s hold x
Occurrences(s, x) == Cardinality({k \in 1..Len(s) : s[k] = x})

\* the sentence strings of the selected (sentence, score) entries
SelectedStrings(run) == [k \in 1..Len(run.selected) |-> run.selected[k].sent]

\* C21: the compressed_text of SimpleFallbackCompressor.compress is the
\* selected sentences, each as often as it was selected, in their original
\* document order and joined by single spaces: a subsequence of the input's
\* sentences whatever their scores.
C21_OriginalOrder ==
    \A i \in 1..Len(fb_runs) :
        LET run == fb_runs[i]
        IN  /\ run.result.compressed_text = Join(run.compressed, SP)
            /\ IsSubsequence(run.compressed, run.sentences)
            /\ \A x \in Range(run.sentences) :
                   Occurrences(run.compressed, x)
                       = Occurrences(SelectedStrings(run), x)

\* C30: SimpleFallbackCompressor.compress emits as many sentences as it
\* selected (target_count, or all of them when there are fewer), also when the
\* same sentence string stands at several positions of the input.
C30_EmittedCount ==
    \A i \in 1..Len(fb_runs) :
        LET run   == fb_runs[i]
            n     == Len(run.sentences)
            count == TargetCount(n, run.ratio)
        IN  /\ Len(run.selected) = (IF count < n THEN count ELSE n)
            /\ Len(run.compressed) = Len(run.selected)

\* C22: LLMLinguaCompressor.compress replaces citations by placeholders only
\* when preserve_citations is true: the text sent to the external model is the
\* protected text with preserve_citations true and the unmodified input with
\* preserve_citations false.
C22_ProtectOnlyWhenAsked ==
    \A k \in 1..Len(sent) :
        sent[k].context = (IF preserve_citations
                           THEN _protect_citations(c_text).text
                           ELSE c_text)

\* compressed_tokens / original_tokens, and 1.0 when original_tokens is 0
TokenRatio(result) ==
    IF result.original_tokens = 0 THEN RatOne
    ELSE Rat(result.compressed_tokens, result.original_tokens)

\* C23: for both compressors the compression_ratio of the result is
\* compressed_tokens / original_tokens, the tokens being the character count
\* div 4, and it is 1.0 whenever original_tokens is 0.
C23_RatioOfTokens ==
    /\ cmpc = "done" =>
           /\ c_result.original_tokens = Len(c_text) \div 4
           /\ c_result.compressed_tokens = Len(c_result.compressed_text) \div 4
           /\ c_result.compression_ratio = TokenRatio(c_result)
    /\ \A i \in 1..Len(fb_runs) :
           LET result == fb_runs[i].result
           IN  /\ result.original_tokens = Len(c_text) \div 4
               /\ result.compressed_tokens = Len(result.compressed_text) \div 4
               /\ result.compression_ratio = TokenRatio(result)

\* C24: with compression disabled or no compressor configured, query sends
\* the assembled context to generation unchanged and returns it as
\* compressed_context, never calls a compressor, and reports compressed equal
\* to original and savings of 0.
C24_PassThrough ==
    (~engine.compression_enabled \/ engine.compressor = "none") =>
        /\ qframe.pc # "IN_COMPRESSOR"
        /\ "compress" \notin Range(ServicesCalled)
        /\ rag_response.kind = "raised" =>
               rag_response.error \notin {"TypeError", "ImportError",
                                          "CompressorError"}
        /\ qframe.pc \in {"IN_GENERATION", "DONE"} =>
               GenerationContext = _format_context(qframe.chunks)
        /\ qframe.pc = "DONE" =>
               /\ rag_response.compressed_context = _format_context(qframe.chunks)
               /\ rag_response.token_stats.compressed
                      = rag_response.token_stats.original
               /\ rag_response.token_stats.savings = 0
               /\ rag_response.token_stats.savings_percent = <<0, 1>>

\* a query answered from a non-empty context by an engine that has a
\* compressor but compression disabled
C24_Witness ==
    /\ qframe.pc = "DONE"
    /\ ~engine.compression_enabled
    /\ engine.compressor = "llmlingua"
    /\ rag_response.token_stats.original > 0
    /\ ServicesCalled = <<"search", "generate">>

\* the document with its named sections taken away
Unsectioned(doc) == [sections |-> <<>>, content |-> doc.content]

\* C25: with respect_sections false, chunk_document treats the whole
\* document as one section named "CONTENT" also when the document has named
\* sections: every chunk has section "CONTENT" and the chunks are those cut
\* from the document's full content.
C25_SectionsIgnored ==
    (cpc = "done" /\ ~respect_sections) =>
        /\ \A k \in 1..Len(chunks) : chunks[k].section = CONTENT
        /\ chunks = chunk_document(Unsectioned(document), chunk_size,
                                   chunk_overlap)

\* the sections of a document whose text is not empty or whitespace only
RECURSIVE NonBlankSections(_)
NonBlankSections(sections) ==
    IF sections = <<>> THEN <<>>
    ELSE (IF Strip(Head(sections).text) # <<>> THEN <<Head(sections)>> ELSE <<>>)
             \o NonBlankSections(Tail(sections))

\* the fields of the DocumentChunks of a result
ChunkFields(cs) ==
    [k \in 1..Len(cs) |-> [content  |-> cs[k].content,
                           chunk_id |-> cs[k].chunk_id,
                           section  |-> cs[k].section]]

\* C26: chunk_document never emits a chunk whose content is empty or
\* whitespace only; a section whose text is empty or whitespace only
\* contributes no chunk, and the chunks of the other sections are those of the
\* document without it.
C26_NoBlankChunks ==
    cpc = "done" =>
        /\ \A k \in 1..Len(chunks) : Strip(chunks[k].content) # <<>>
        /\ \A sidx \in 1..Len(SectionTexts(document)) :
               Strip(SectionTexts(document)[sidx]) = <<>> =>
                   ContentsOf(chunks, sidx) = <<>>
        /\ NonBlankSections(document.sections) # <<>> =>
               ChunkFields(chunks) =
                   ChunkFields(chunk_document(
                       [document EXCEPT !.sections = NonBlankSections(@)],
                       chunk_size, chunk_overlap))

\* a document with a whitespace-only section before a section that was cut
\* into several chunks
C26_Witness ==
    /\ cpc = "done"
    /\ Len(document.sections) >= 2
    /\ Strip(document.sections[1].text) = <<>>
    /\ document.sections[1].text # <<>>
    /\ Len(ContentsOf(chunks, 2)) >= 2

\* the header fields in their fixed order, each with its label
HeaderFields(metadata) ==
    << [label |-> <<"C", "a", "s", "e", ":", " ">>, value |-> metadata.case_name],
       [label |-> <<"C", "o", "u", "r", "t", ":", " ">>, value |-> metadata.court],
       [label |-> <<"S", "e", "c", "t", "i", "o", "n", ":", " ">>,
        value |-> metadata.section],
       [label |-> <<"F", "i", "l", "e", ":", " ">>, value |-> metadata.filename] >>

\* the labelled fields that are present, in order
RECURSIVE PresentFields(_)
PresentFields(fields) ==
    IF fields = <<>> THEN <<>>
    ELSE (IF Head(fields).value # <<>>
          THEN <<Head(fields).label \o Head(fields).value>> ELSE <<>>)
         \o PresentFields(Tail(fields))

\* the block the claim prescribes for the match at position i
PrescribedBlock(i, match) ==
    LET present == PresentFields(HeaderFields(match.metadata))
        listed  == IF present = <<>> THEN <<>>
                   ELSE <<" ", "(">> \o Join(present, <<";", " ">>) \o <<")">>
    IN  <<"[", "D", "o", "c", "u", "m", "e", "n", "t", " ">> \o IntToStr(i)
            \o <<"]">> \o listed \o <<"\n">> \o match.content

\* the blocks joined by "\n\n---\n\n", from block i on
RECURSIVE PrescribedContext(_, _)
PrescribedContext(found, i) ==
    IF i > Len(found) THEN <<>>
    ELSE PrescribedBlock(i, found[i])
         \o (IF i < Len(found)
             THEN <<"\n", "\n", "-", "-", "-", "\n", "\n">>
                      \o PrescribedContext(found, i + 1)
             ELSE <<>>)

\* C27: _format_context emits one block per match in the order of the search
\* result, numbered from 1; the header of a block lists exactly the fields
\* among case name, court, section and filename that are non-empty in the
\* match's metadata, in that order and separated by "; ", with no parenthesised
\* list when none is present; the blocks are separated by "\n\n---\n\n".
C27_ContextFormat ==
    qframe.pc = "COMPRESS" =>
        qframe.original_context = PrescribedContext(qframe.chunks, 1)

\* two matches were formatted, the first without any metadata, the second
\* with a court and a filename but no case name
C27_Witness ==
    /\ qframe.pc = "COMPRESS"
    /\ Len(qframe.chunks) = 2
    /\ qframe.chunks[1].metadata = NoMetadata
    /\ qframe.chunks[2].metadata.case_name = <<>>
    /\ qframe.chunks[2].metadata.court # <<>>
    /\ qframe.chunks[2].metadata.filename # <<>>
    /\ qframe.original_context # <<>>

\* the question and the filter the claim prescribes for a case request
PrescribedQuestion(request) ==
    IF request.endpoint = "analyze-case" THEN AnalyzeQuestion(request.case1)
    ELSE CompareQuestion(request.case1, request.case2)

PrescribedFilter(request) ==
    IF request.endpoint = "analyze-case" /\ request.case1 # <<>>
    THEN [given |-> TRUE, case_name |-> request.case1]
    ELSE [given |-> FALSE, case_name |-> <<>>]

\* C28: analyze_case and compare_cases each run one pass of the query state
\* machine on their question: the store is searched once, with the filter
\* {case_name: name} for analyze_case with a non-empty name and with no filter
\* otherwise, the calls come in the order of query, and the response is the
\* one query builds for that question.
C28_OnePassOfQuery ==
    (api.pc \in {"IN_ENGINE", "RESPONDED"} /\ api.request.endpoint # "query") =>
        /\ qframe.question = PrescribedQuestion(api.request)
        /\ qframe.filter_metadata = PrescribedFilter(api.request)
        /\ qframe.include_sources
        /\ ServicesCalled \in
               { <<>>, <<"search">>, <<"search", "compress">>,
                 <<"search", "generate">>, <<"search", "compress", "generate">> }
        /\ service_calls # <<>> =>
               /\ service_calls[1].query = PrescribedQuestion(api.request)
               /\ service_calls[1].filter_metadata = PrescribedFilter(api.request)
        /\ qframe.pc # "START" => service_calls # <<>>
        /\ rag_response.kind = "response" =>
               /\ rag_response.query = PrescribedQuestion(api.request)
               /\ qframe.chunks = <<>> =>
                      rag_response = EmptyResponse(PrescribedQuestion(api.request))
               /\ qframe.chunks # <<>> =>
                      /\ rag_response.sources = qframe.chunks
                      /\ rag_response.token_stats =
                             TokenStats(Len(_format_context(qframe.chunks)) \div 4,
                                        Len(rag_response.compressed_context) \div 4)

\* an analyze-case request for a named case was answered from the matches of
\* a filtered search
C28_Witness ==
    /\ api.pc = "RESPONDED"
    /\ api.request.endpoint = "analyze-case"
    /\ api.request.case1 # <<>>
    /\ api.http.status = 200
    /\ qframe.chunks # <<>>
    /\ service_calls[1].filter_metadata.given
    /\ ServicesCalled = <<"search", "compress", "generate">>

\* the texts made of trailing units of a buffer in their order, joined by
\* single spaces, the earliest unit whole or cut to a suffix of itself
TrailingTexts(units) ==
    LET n == Len(units)
    IN  {Join(SubSeq(units, j, n), SP) : j \in 1..(n + 1)}
        \cup UNION {{Join(<<SubSeq(units[j], c, Len(units[j]))>>
                               \o SubSeq(units, j + 1, n), SP) :
                              c \in 1..Len(units[j])} : j \in 1..n}

\* C29: the overlap text of _get_overlap is never longer than chunk_overlap
\* characters, is empty when chunk_overlap <= 0, and consists of trailing units
\* of the closed buffer in their original order, the earliest one possibly cut
\* to a suffix of itself.
C29_OverlapBounded ==
    ov.pc = "done" =>
        /\ ov.chunk_overlap <= 0 => ov.overlap_text = <<>>
        /\ ov.chunk_overlap > 0 => Len(ov.overlap_text) <= ov.chunk_overlap
        /\ ov.overlap_text \in TrailingTexts(ov.units)

\* an overlap made of the last unit and a cut suffix of the one before it
C29_Witness ==
    /\ ov.pc = "done"
    /\ Len(ov.units) >= 2
    /\ ov.chunk_overlap = 3
    /\ ov.units[Len(ov.units)] = <<"c">>
    /\ ov.units[Len(ov.units) - 1] = <<"a", "b", ".">>
    /\ ov.overlap_text = <<".", " ", "c">>

====
